---- MODULE Spec2Model ----
(***************************************************************************)
(* Shape-level and control-level model of models/networks.py: the network  *)
(* constructors build trees of layer records, forward interprets them on   *)
(* tensor shapes (batch, channels, height, width) with PyTorch's size      *)
(* arithmetic and its run-time shape checks; GANLoss and                   *)
(* cal_gradient_penalty are modelled by their dispatch and their state.    *)
(***************************************************************************)
EXTENDS Integers, Sequences, FiniteSets, TLC

VARIABLES args, net, input, output, acts, inst, lastcall, err, gp

vars == <<args, net, input, output, acts, inst, lastcall, err, gp>>

(***************************************************************************)
(* Bounds of the explored inputs.                                          *)
(***************************************************************************)
MaxSide == 13
MaxBatch == 2
MaxBlocks == 2
MaxNextSide == 65
MaxNumDowns == 8
MaxUnetSide == 257
MaxPredValue == 1

Sides == 1..MaxSide
Batches == 1..MaxBatch
InChannels == {3}
OutChannels == {1, 3}
BaseWidths == {4, 96}
UnetWidths == {4}
NextSides == 1..MaxNextSide
NumDowns == 1..MaxNumDowns
\* the powers of two and their neighbours
UnetSides == {s \in 1..MaxUnetSide : \E k \in 0..(MaxNumDowns + 1) : s \in {2^k, 2^k + 1}}

(***************************************************************************)
(* Tensors are represented by their shape; a failed operation yields a     *)
(* value with ok = FALSE that every later operation passes through, as a   *)
(* raised exception unwinds forward().                                     *)
(***************************************************************************)
Tensor(b, c, h, w) == [ok |-> TRUE, b |-> b, c |-> c, h |-> h, w |-> w, err |-> ""]

Raise(msg) == [ok |-> FALSE, b |-> 0, c |-> 0, h |-> 0, w |-> 0, err |-> msg]

NoTensor == Raise("no call")

NoNet == [t |-> "None"]

(***************************************************************************)
(* Layer records, one constructor per torch.nn class used by the source.   *)
(***************************************************************************)
Conv2d(cin, cout, k, s, p, bias, name) ==
    [t |-> "Conv2d", cin |-> cin, cout |-> cout, k |-> k, s |-> s, p |-> p,
     groups |-> 1, bias |-> bias, name |-> name]

ConvTranspose2d(cin, cout, k, s, p, op, bias, name) ==
    [t |-> "ConvTranspose2d", cin |-> cin, cout |-> cout, k |-> k, s |-> s,
     p |-> p, op |-> op, bias |-> bias, name |-> name]

ReflectionPad2d(p) == [t |-> "ReflectionPad2d", p |-> p, name |-> ""]

ReplicationPad2d(p) == [t |-> "ReplicationPad2d", p |-> p, name |-> ""]

Act(t, name) == [t |-> t, name |-> name]

Dropout == [t |-> "Dropout", name |-> ""]

\* norm_layer(n): norm_layer is the class (or partial) chosen by the caller
Norm(norm_layer, n, name) == [t |-> norm_layer, n |-> n, name |-> name]

(***************************************************************************)
(* Size arithmetic of the torch operators.                                 *)
(***************************************************************************)
ConvOut(n, k, s, p) == ((n + 2 * p - k) \div s) + 1

ConvTransposeOut(n, k, s, p, op) == (n - 1) * s - 2 * p + k + op

\* torch broadcasting of one dimension of two operands
Broadcastable(a, b) == a = b \/ a = 1 \/ b = 1

Max(a, b) == IF a >= b THEN a ELSE b

Min(a, b) == IF a <= b THEN a ELSE b

\* x + y of two 4-d tensors
Add(x, y) ==
    IF ~x.ok THEN x
    ELSE IF ~y.ok THEN y
    ELSE IF /\ Broadcastable(x.b, y.b) /\ Broadcastable(x.c, y.c)
            /\ Broadcastable(x.h, y.h) /\ Broadcastable(x.w, y.w)
    THEN Tensor(Max(x.b, y.b), Max(x.c, y.c), Max(x.h, y.h), Max(x.w, y.w))
    ELSE Raise("RuntimeError: the size of tensor a must match the size of tensor b")

\* a concatenation that keeps the channels of its first operand only
Cat_first_only(x, y) ==
    IF ~x.ok THEN x
    ELSE IF ~y.ok THEN y
    ELSE IF x.b = y.b /\ x.h = y.h /\ x.w = y.w
    THEN Tensor(x.b, x.c, x.h, x.w)
    ELSE Raise("RuntimeError: sizes of tensors must match except in dimension 1")

\* torch.cat((x, y), dim=1)
Cat(x, y) ==
    IF ~x.ok THEN x
    ELSE IF ~y.ok THEN y
    ELSE IF x.b = y.b /\ x.h = y.h /\ x.w = y.w
    THEN Tensor(x.b, x.c + y.c, x.h, x.w)
    ELSE Raise("RuntimeError: sizes of tensors must match except in dimension 1")

\* nn.Conv2d.forward
Conv2dForward(m, x) ==
    IF x.c # m.cin
    THEN Raise("RuntimeError: expected input to have cin channels")
    ELSE IF x.h + 2 * m.p < m.k \/ x.w + 2 * m.p < m.k
    THEN Raise("RuntimeError: kernel size can't be greater than actual input size")
    ELSE Tensor(x.b, m.cout, ConvOut(x.h, m.k, m.s, m.p), ConvOut(x.w, m.k, m.s, m.p))

\* nn.ConvTranspose2d.forward
ConvTranspose2dForward(m, x) ==
    IF x.c # m.cin
    THEN Raise("RuntimeError: expected input to have cin channels")
    ELSE Tensor(x.b, m.cout, ConvTransposeOut(x.h, m.k, m.s, m.p, m.op),
                ConvTransposeOut(x.w, m.k, m.s, m.p, m.op))

\* nn.ReflectionPad2d.forward: the padding must be smaller than the side
ReflectionPad2dForward(m, x) ==
    IF m.p >= x.h \/ m.p >= x.w
    THEN Raise("RuntimeError: padding size should be less than the input dimension")
    ELSE Tensor(x.b, x.c, x.h + 2 * m.p, x.w + 2 * m.p)

ReplicationPad2dForward(m, x) == Tensor(x.b, x.c, x.h + 2 * m.p, x.w + 2 * m.p)

\* nn.BatchNorm2d.forward of a freshly constructed (training) module
BatchNorm2dForward(m, x) ==
    IF x.c # m.n
    THEN Raise("RuntimeError: running_mean should contain c elements")
    ELSE IF x.b * x.h * x.w <= 1
    THEN Raise("ValueError: expected more than 1 value per channel when training")
    ELSE x

\* nn.InstanceNorm2d.forward (affine=False, no running statistics)
InstanceNorm2dForward(m, x) ==
    IF x.h * x.w <= 1
    THEN Raise("ValueError: expected more than 1 spatial element when training")
    ELSE x

\* LayerNorm.forward with data_format channels_first: weight[:, None, None] * x
LayerNormForward(m, x) ==
    IF Broadcastable(m.n, x.c)
    THEN Tensor(x.b, Max(m.n, x.c), x.h, x.w)
    ELSE Raise("RuntimeError: the size of tensor a must match the size of tensor b")

\* nn.Linear applied to the permuted (N, H, W, C) tensor: the trailing axis
\* (kept in field c) must have in_features entries
LinearForward(cin, cout, x) ==
    IF ~x.ok THEN x
    ELSE IF x.c # cin
    THEN Raise("RuntimeError: mat1 and mat2 shapes cannot be multiplied")
    ELSE Tensor(x.b, cout, x.h, x.w)

\* LayerNorm.forward with data_format channels_last: F.layer_norm over the
\* trailing axis, which must equal normalized_shape
LayerNormLastForward(n, x) ==
    IF ~x.ok THEN x
    ELSE IF x.c # n
    THEN Raise("RuntimeError: input does not end with normalized_shape")
    ELSE x

\* gamma * x on the permuted tensor: gamma has dim entries
GammaForward(n, x) ==
    IF ~x.ok THEN x
    ELSE IF Broadcastable(n, x.c) THEN Tensor(x.b, Max(n, x.c), x.h, x.w)
    ELSE Raise("RuntimeError: the size of tensor a must match the size of tensor b")

\* Block(dim): the ConvNeXt block
Block(dim) == [t |-> "Block", dim |-> dim, name |-> ""]

\* Block.forward
BlockForward(m, x) ==
    LET dwconv == [Conv2d(m.dim, m.dim, 3, 1, 1, TRUE, "dwconv") EXCEPT !.groups = m.dim]
        x1 == Conv2dForward(dwconv, x)
        x2 == LayerNormLastForward(m.dim, x1)
        x3 == LinearForward(m.dim, 4 * m.dim, x2)
        x4 == LinearForward(4 * m.dim, m.dim, x3)
        x5 == GammaForward(m.dim, x4)
    IN  Add(x, x5)

\* InvBlock(dim): the block whose spatial mixing is Involution2d
InvBlock(dim) == [t |-> "InvBlock", dim |-> dim, name |-> ""]

\* InvBlock.forward; Involution2d(in_channels=dim, out_channels=dim) keeps the
\* shape (7x7 kernel, padding 3, stride 1) of a dim-channel input
InvBlockForward(m, x) ==
    LET x1 == IF x.c # m.dim
              THEN Raise("RuntimeError: shape is invalid for input of this size")
              ELSE x
        x2 == LayerNormLastForward(m.dim, x1)
        x3 == LinearForward(m.dim, 4 * m.dim, x2)
        x4 == LinearForward(4 * m.dim, m.dim, x3)
        x5 == GammaForward(m.dim, x4)
    IN  Add(x, x5)

(***************************************************************************)
(* ResnetBlock                                                             *)
(***************************************************************************)
PaddingTypes == {"reflect", "replicate", "zero"}

\* a block without explicit pad layers, whatever the padding type
PadLayers_none(padding_type) == <<>>

\* the pad layer (if any) that build_conv_block puts before each convolution
PadLayers(padding_type) ==
    IF padding_type = "reflect" THEN <<ReflectionPad2d(1)>>
    ELSE IF padding_type = "replicate" THEN <<ReplicationPad2d(1)>>
    ELSE <<>>

\* ResnetBlock.build_conv_block
build_conv_block(dim, padding_type, norm_layer, use_dropout, use_bias) ==
    LET p == IF padding_type = "zero" THEN 1 ELSE 0
    IN  PadLayers(padding_type)
        \o <<Conv2d(dim, dim, 3, 1, p, use_bias, ""), Norm(norm_layer, dim, ""),
             Act("ReLU", "")>>
        \o (IF use_dropout THEN <<Dropout>> ELSE <<>>)
        \o PadLayers(padding_type)
        \o <<Conv2d(dim, dim, 3, 1, p, use_bias, ""), Norm(norm_layer, dim, "")>>

\* ResnetBlock.__init__
ResnetBlock(dim, padding_type, norm_layer, use_dropout, use_bias) ==
    IF padding_type \notin PaddingTypes
    THEN [t |-> "Error", err |-> "NotImplementedError: padding is not implemented",
          name |-> ""]
    ELSE [t |-> "ResnetBlock", name |-> "",
          conv_block |-> build_conv_block(dim, padding_type, norm_layer,
                                          use_dropout, use_bias)]

(***************************************************************************)
(* forward of a module tree: nn.Sequential applies its children in order   *)
(***************************************************************************)
\* transforms.Resize(size=(h, w)) and its forward on a (b, c, H, W) tensor
Resize(h, w) == [t |-> "Resize", h |-> h, w |-> w, name |-> ""]

ResizeForward(m, x) == Tensor(x.b, x.c, m.h, m.w)

RECURSIVE Sequential(_, _)
RECURSIVE Forward(_, _)

Forward(m, x) ==
    IF ~x.ok THEN x
    ELSE CASE m.t = "Conv2d" -> Conv2dForward(m, x)
           [] m.t = "ConvTranspose2d" -> ConvTranspose2dForward(m, x)
           [] m.t = "ReflectionPad2d" -> ReflectionPad2dForward(m, x)
           [] m.t = "ReplicationPad2d" -> ReplicationPad2dForward(m, x)
           [] m.t = "BatchNorm2d" -> BatchNorm2dForward(m, x)
           [] m.t = "InstanceNorm2d" -> InstanceNorm2dForward(m, x)
           [] m.t = "LayerNorm" -> LayerNormForward(m, x)
           [] m.t = "Block" -> BlockForward(m, x)
           [] m.t = "InvBlock" -> InvBlockForward(m, x)
           [] m.t = "Resize" -> ResizeForward(m, x)
           \* ResnetBlock.forward: x + self.conv_block(x)
           [] m.t = "ResnetBlock" -> Add(x, Sequential(m.conv_block, x))
           \* UnetSkipConnectionBlock.forward
           [] m.t = "UnetSkipConnectionBlock" ->
                IF m.outermost THEN Sequential(m.model, x)
                ELSE Cat(x, Sequential(m.model, x))
           \* Identity, ReLU, LeakyReLU, Tanh, Dropout keep the shape
           [] OTHER -> x

Sequential(layers, x) ==
    IF layers = <<>> THEN x
    ELSE Sequential(Tail(layers), Forward(Head(layers), x))

(***************************************************************************)
(* ResnetGenerator                                                         *)
(***************************************************************************)
NormLayers == {"BatchNorm2d", "InstanceNorm2d", "Identity"}

\* the n_blocks ResnetBlocks appended by the loop of ResnetGenerator.__init__
RECURSIVE ResnetBlocks(_, _, _, _, _, _)
ResnetBlocks(n, dim, padding_type, norm_layer, use_dropout, use_bias) ==
    IF n <= 0 THEN <<>>
    ELSE <<ResnetBlock(dim, padding_type, norm_layer, use_dropout, use_bias)>>
         \o ResnetBlocks(n - 1, dim, padding_type, norm_layer, use_dropout, use_bias)

\* one downsampling stage of ResnetGenerator.__init__ (loop index i, mult = 2 ** i)
Downsampling(ngf, mult, norm_layer, use_bias) ==
    <<Conv2d(ngf * mult, ngf * mult * 2, 3, 2, 1, use_bias, ""),
      Norm(norm_layer, ngf * mult * 2, ""), Act("ReLU", "")>>

\* Upsampling without output_padding: each stage yields 2n - 1 instead of 2n
Upsampling_no_output_padding(ngf, mult, norm_layer, use_bias) ==
    <<ConvTranspose2d(ngf * mult, (ngf * mult) \div 2, 3, 2, 1, 0, use_bias, ""),
      Norm(norm_layer, (ngf * mult) \div 2, ""), Act("ReLU", "")>>

\* one upsampling stage of ResnetGenerator.__init__ (mult = 2 ** (n_downsampling - i))
Upsampling(ngf, mult, norm_layer, use_bias) ==
    <<ConvTranspose2d(ngf * mult, (ngf * mult) \div 2, 3, 2, 1, 1, use_bias, ""),
      Norm(norm_layer, (ngf * mult) \div 2, ""), Act("ReLU", "")>>

\* ResnetGenerator.__init__
ResnetGenerator(input_nc, output_nc, ngf, norm_layer, use_dropout, n_blocks, padding_type) ==
    LET use_bias == norm_layer = "InstanceNorm2d"
        model == <<ReflectionPad2d(3), Conv2d(input_nc, ngf, 7, 1, 0, use_bias, ""),
                   Norm(norm_layer, ngf, ""), Act("ReLU", "")>>
                 \o Downsampling(ngf, 1, norm_layer, use_bias)
                 \o Downsampling(ngf, 2, norm_layer, use_bias)
                 \o ResnetBlocks(n_blocks, ngf * 4, padding_type, norm_layer,
                                 use_dropout, use_bias)
                 \o Upsampling(ngf, 4, norm_layer, use_bias)
                 \o Upsampling(ngf, 2, norm_layer, use_bias)
                 \o <<ReflectionPad2d(3), Conv2d(ngf, output_nc, 7, 1, 0, TRUE, ""),
                      Act("Tanh", "")>>
    IN  [t |-> "ResnetGenerator", input_nc |-> input_nc, output_nc |-> output_nc,
         n_blocks |-> n_blocks, model |-> model]

\* ResnetGenerator.forward
ResnetGeneratorForward(self, x) == Sequential(self.model, x)

(***************************************************************************)
(* ConvnextGenerator and InvnextGenerator                                  *)
(***************************************************************************)
\* default arguments of the ConvNeXt-family constructors; define_G passes
\* neither of them
depths == <<3, 3, 9, 3>>

dims == <<96, 192, 384, 768>>

\* LayerNorm(n, eps=1e-6, data_format="channels_first")
LayerNorm(n) == Norm("LayerNorm", n, "")

\* decoder1 upsampling by 2, as the other decoder stages do, instead of by 4
NextDecoder1_stride2(features, output_nc) ==
    <<ConvTranspose2d(features, output_nc, 2, 2, 0, 0, TRUE, ""), LayerNorm(output_nc)>>

\* self.decoder1 of ConvnextGenerator and InvnextGenerator
NextDecoder1(features, output_nc) ==
    <<ConvTranspose2d(features, output_nc, 4, 4, 0, 0, TRUE, ""), LayerNorm(output_nc)>>

\* the members shared by ConvnextGenerator.__init__ and InvnextGenerator.__init__
NextMembers(input_nc, output_nc, ngf) ==
    LET features == ngf
    IN  [encoder1 |-> <<Conv2d(input_nc, features, 4, 4, 0, TRUE, ""), LayerNorm(features)>>,
         encoder2 |-> <<Conv2d(features, features * 2, 2, 2, 0, TRUE, ""),
                        LayerNorm(features * 2)>>,
         encoder3 |-> <<Conv2d(features * 2, features * 4, 2, 2, 0, TRUE, ""),
                        LayerNorm(features * 4)>>,
         encoder4 |-> <<Conv2d(features * 4, features * 8, 2, 2, 0, TRUE, ""),
                        LayerNorm(features * 8)>>,
         decoder4 |-> <<ConvTranspose2d(features * 8, features * 4, 2, 2, 0, 0, TRUE, ""),
                        LayerNorm(features * 4)>>,
         decoder3 |-> <<ConvTranspose2d(features * 4, features * 2, 2, 2, 0, 0, TRUE, ""),
                        LayerNorm(features * 2)>>,
         decoder2 |-> <<ConvTranspose2d(features * 2, features, 2, 2, 0, 0, TRUE, ""),
                        LayerNorm(features)>>,
         decoder1 |-> NextDecoder1(features, output_nc),
         upconv4 |-> <<ConvTranspose2d(features * 8, features * 4, 3, 1, 1, 0, FALSE, ""),
                       LayerNorm(features * 4)>>,
         upconv3 |-> <<ConvTranspose2d(features * 4, features * 2, 3, 1, 1, 0, FALSE, ""),
                       LayerNorm(features * 2)>>,
         upconv2 |-> <<ConvTranspose2d(features * 2, features, 3, 1, 1, 0, FALSE, ""),
                       LayerNorm(features)>>,
         upconv1 |-> <<ConvTranspose2d(features * 8, features * 4, 3, 1, 1, 0, FALSE, ""),
                       LayerNorm(features * 4)>>,
         act |-> Act("Tanh", "")]

\* ConvnextGenerator.__init__
ConvnextGenerator(input_nc, output_nc, ngf) ==
    [t |-> "ConvnextGenerator", input_nc |-> input_nc, output_nc |-> output_nc,
     ngf |-> ngf,
     blocks |-> [i \in 1..4 |-> [j \in 1..depths[i] |-> Block(dims[i])]],
     m |-> NextMembers(input_nc, output_nc, ngf)]

\* InvnextGenerator.__init__
InvnextGenerator(input_nc, output_nc, ngf) ==
    [t |-> "InvnextGenerator", input_nc |-> input_nc, output_nc |-> output_nc,
     ngf |-> ngf,
     blocks |-> [i \in 1..4 |-> [j \in 1..depths[i] |-> InvBlock(dims[i])]],
     m |-> NextMembers(input_nc, output_nc, ngf)]

\* de1 = self.decoder1(dex2); return self.act(de1)
FinalStage(self, dex2) ==
    LET de1 == Sequential(self.m.decoder1, dex2)
    IN  [de1 |-> de1, y |-> Forward(self.m.act, de1),
         calls |-> IF ~dex2.ok THEN <<>>
                   ELSE IF ~de1.ok THEN <<"decoder1">>
                   ELSE <<"decoder1", "act">>]

\* ConvnextGenerator.forward, ConvnextBIGenerator.forward and
\* InvnextGenerator.forward (the same statements over self.Convnextblock and
\* self.InvnextBlock), from en1 = self.encoder1(x) to dex2 = self.upconv2(...):
\* every named tensor is kept
NextStages(self, x) ==
    LET en1 == Sequential(self.m.encoder1, x)
        enx1 == Sequential(self.blocks[1], en1)
        en2 == Sequential(self.m.encoder2, enx1)
        enx2 == Sequential(self.blocks[2], en2)
        en3 == Sequential(self.m.encoder3, enx2)
        enx3 == Sequential(self.blocks[3], en3)
        en4 == Sequential(self.m.encoder4, enx3)
        bottle_x == Sequential(self.blocks[4], en4)
        de4 == Sequential(self.m.decoder4, bottle_x)
        cat4 == Cat(de4, enx3)
        dex4 == Sequential(self.m.upconv4, cat4)
        de3 == Sequential(self.m.decoder3, dex4)
        cat3 == Cat(de3, enx2)
        dex3 == Sequential(self.m.upconv3, cat3)
        de2 == Sequential(self.m.decoder2, dex3)
        cat2 == Cat(de2, enx1)
        dex2 == Sequential(self.m.upconv2, cat2)
    IN  [en1 |-> en1, enx1 |-> enx1, en2 |-> en2, enx2 |-> enx2, en3 |-> en3,
         enx3 |-> enx3, en4 |-> en4, bottle_x |-> bottle_x,
         de4 |-> de4, cat4 |-> cat4, dex4 |-> dex4,
         de3 |-> de3, cat3 |-> cat3, dex3 |-> dex3,
         de2 |-> de2, cat2 |-> cat2, dex2 |-> dex2]

\* the members the statements of forward apply, in order
NextStatements ==
    <<"encoder1", "block[0]", "encoder2", "block[1]", "encoder3", "block[2]",
      "encoder4", "block[3]", "decoder4", "cat", "upconv4", "decoder3", "cat",
      "upconv3", "decoder2", "cat", "upconv2">>

\* the members applied while computing the tensors r, up to the one that raises
StagesApplied(r) ==
    LET outs == <<r.en1, r.enx1, r.en2, r.enx2, r.en3, r.enx3, r.en4, r.bottle_x,
                  r.de4, r.cat4, r.dex4, r.de3, r.cat3, r.dex3, r.de2, r.cat2, r.dex2>>
        done == Cardinality({i \in 1..Len(outs) : outs[i].ok})
    IN  SubSeq(NextStatements, 1, Min(done + 1, Len(NextStatements)))

\* the end of forward, given the tensors r of the stages and the last stage
NextReturn(r, last) ==
    [en1 |-> r.en1, enx1 |-> r.enx1, en2 |-> r.en2, enx2 |-> r.enx2, en3 |-> r.en3,
     enx3 |-> r.enx3, en4 |-> r.en4, bottle_x |-> r.bottle_x,
     de4 |-> r.de4, cat4 |-> r.cat4, dex4 |-> r.dex4,
     de3 |-> r.de3, cat3 |-> r.cat3, dex3 |-> r.dex3,
     de2 |-> r.de2, cat2 |-> r.cat2, dex2 |-> r.dex2, de1 |-> last.de1,
     calls |-> StagesApplied(r) \o last.calls,
     y |-> last.y]

\* the whole of forward
NextLast(self, r) == NextReturn(r, FinalStage(self, r.dex2))

NextForward(self, x) == NextLast(self, NextStages(self, x))

(***************************************************************************)
(* UnetGenerator                                                           *)
(***************************************************************************)
\* an upconv sized for the output of the child alone, without the skip
UpconvIn_no_skip(inner_nc, innermost) == inner_nc

\* the input channels of upconv: inner_nc for the innermost block, inner_nc * 2
\* for the blocks that receive the concatenation returned by their submodule
UpconvIn(inner_nc, innermost) == IF innermost THEN inner_nc ELSE inner_nc * 2

\* UnetSkipConnectionBlock.__init__; input_nc is <<>> for None, <<n>> otherwise
UnetSkipConnectionBlock(outer_nc, inner_nc, input_nc, submodule, outermost, innermost, norm_layer, use_dropout) ==
    LET use_bias == norm_layer = "InstanceNorm2d"
        in_nc == IF input_nc = <<>> THEN outer_nc ELSE input_nc[1]
        downconv == Conv2d(in_nc, inner_nc, 4, 2, 1, use_bias, "downconv")
        downrelu == Act("LeakyReLU", "downrelu")
        downnorm == Norm(norm_layer, inner_nc, "downnorm")
        uprelu == Act("ReLU", "uprelu")
        upnorm == Norm(norm_layer, outer_nc, "upnorm")
        model ==
            IF outermost
            THEN <<downconv>> \o <<submodule>>
                 \o <<uprelu, ConvTranspose2d(UpconvIn(inner_nc, FALSE), outer_nc, 4, 2, 1, 0, TRUE, "upconv"),
                      Act("Tanh", "")>>
            ELSE IF innermost
            THEN <<downrelu, downconv>>
                 \o <<uprelu, ConvTranspose2d(UpconvIn(inner_nc, TRUE), outer_nc, 4, 2, 1, 0, use_bias, "upconv"),
                      upnorm>>
            ELSE <<downrelu, downconv, downnorm>> \o <<submodule>>
                 \o <<uprelu, ConvTranspose2d(UpconvIn(inner_nc, FALSE), outer_nc, 4, 2, 1, 0, use_bias, "upconv"),
                      upnorm>>
                 \o (IF use_dropout THEN <<Dropout>> ELSE <<>>)
    IN  [t |-> "UnetSkipConnectionBlock", name |-> "", outermost |-> outermost,
         outer_nc |-> outer_nc, inner_nc |-> inner_nc, model |-> model]

RECURSIVE IntermediateBlocks(_, _, _, _, _)

\* the loop "for i in range(num_downs - 5)" of UnetGenerator.__init__
IntermediateBlocks(n, unet_block, ngf, norm_layer, use_dropout) ==
    IF n <= 0 THEN unet_block
    ELSE IntermediateBlocks(n - 1,
             UnetSkipConnectionBlock(ngf * 8, ngf * 8, <<>>, unet_block, FALSE, FALSE,
                                     norm_layer, use_dropout),
             ngf, norm_layer, use_dropout)

\* range(num_downs - 4): one intermediate level too many
IntermediateCount_one_more(num_downs) == num_downs - 4

\* range(num_downs - 6): one intermediate level too few
IntermediateCount_one_less(num_downs) == num_downs - 6

\* a loop that always adds at least one intermediate level
IntermediateCount_at_least_one(num_downs) == Max(num_downs - 5, 1)

\* the number of intermediate blocks asked for: range(num_downs - 5)
IntermediateCount(num_downs) == num_downs - 5

\* UnetGenerator.__init__
UnetGenerator(input_nc, output_nc, num_downs, ngf, norm_layer, use_dropout) ==
    LET b0 == UnetSkipConnectionBlock(ngf * 8, ngf * 8, <<>>, NoNet, FALSE, TRUE,
                                      norm_layer, FALSE)
        b1 == IntermediateBlocks(IntermediateCount(num_downs), b0, ngf, norm_layer, use_dropout)
        b2 == UnetSkipConnectionBlock(ngf * 4, ngf * 8, <<>>, b1, FALSE, FALSE, norm_layer, FALSE)
        b3 == UnetSkipConnectionBlock(ngf * 2, ngf * 4, <<>>, b2, FALSE, FALSE, norm_layer, FALSE)
        b4 == UnetSkipConnectionBlock(ngf, ngf * 2, <<>>, b3, FALSE, FALSE, norm_layer, FALSE)
    IN  [t |-> "UnetGenerator", input_nc |-> input_nc, output_nc |-> output_nc,
         num_downs |-> num_downs,
         model |-> UnetSkipConnectionBlock(output_nc, ngf, <<input_nc>>, b4, TRUE, FALSE,
                                           norm_layer, FALSE)]

\* UnetGenerator.forward
UnetGeneratorForward(self, x) == Forward(self.model, x)

\* the child block among the members of a block's model, if any
Submodules(block) ==
    {i \in 1..Len(block.model) : block.model[i].t = "UnetSkipConnectionBlock"}

\* the number of nested UnetSkipConnectionBlocks, this one included
RECURSIVE Levels(_)
Levels(block) ==
    IF Submodules(block) = {} THEN 1
    ELSE 1 + Levels(block.model[CHOOSE i \in Submodules(block) : TRUE])

\* the tensor leaving the downconv of the innermost block during forward(x):
\* each level runs the members placed before its submodule on its own input
RECURSIVE Bottleneck(_, _)
Bottleneck(block, x) ==
    LET convs == {i \in 1..Len(block.model) : block.model[i].name = "downconv"}
        c == CHOOSE i \in convs : TRUE
    IN  IF Submodules(block) = {}
        THEN Sequential(SubSeq(block.model, 1, c), x)
        ELSE LET sub == CHOOSE i \in Submodules(block) : TRUE
             IN  Bottleneck(block.model[sub], Sequential(SubSeq(block.model, 1, sub - 1), x))

\* the nested blocks, outermost first
RECURSIVE BlockChain(_)
BlockChain(block) ==
    IF Submodules(block) = {} THEN <<block>>
    ELSE <<block>> \o BlockChain(block.model[CHOOSE i \in Submodules(block) : TRUE])

\* for every level, outermost first, the tensor it receives and the tensor
\* its forward returns during forward(x)
RECURSIVE LevelOutputs(_, _)
LevelOutputs(block, x) ==
    IF Submodules(block) = {} THEN <<[in |-> x, out |-> Forward(block, x)]>>
    ELSE LET sub == CHOOSE i \in Submodules(block) : TRUE
             down == Sequential(SubSeq(block.model, 1, sub - 1), x)
             inner == LevelOutputs(block.model[sub], down)
             up == Sequential(SubSeq(block.model, sub + 1, Len(block.model)), inner[1].out)
         IN  <<[in |-> x, out |-> IF block.outermost THEN up ELSE Cat(x, up)]>> \o inner

(***************************************************************************)
(* State machine of the generators.  The arguments of one run (those of    *)
(* the constructor and the shape of the input batch) are drawn in the      *)
(* initial state; the constructor leaves the network, forward on it leaves *)
(* the input and the result.                                               *)
(***************************************************************************)
NoActs == [t |-> "None"]

LossIdle == /\ inst = [t |-> "None"]
            /\ lastcall = [op |-> "none"]
            /\ err = ""
            /\ gp = [op |-> "none"]

GenIdle == /\ net = NoNet
           /\ input = NoTensor
           /\ output = NoTensor
           /\ acts = NoActs

Constructed(n) == /\ net = NoNet
                  /\ net' = n
                  /\ UNCHANGED <<args, input, output, acts, inst, lastcall, err, gp>>

ResnetArgs ==
    [input_nc : InChannels, output_nc : OutChannels, ngf : BaseWidths, norm_layer : NormLayers,
     use_dropout : BOOLEAN, n_blocks : 0..MaxBlocks, padding_type : PaddingTypes,
     b : Batches, h : Sides, w : Sides]

ResnetInit == args \in ResnetArgs /\ GenIdle /\ LossIdle

ResnetGenerator_init ==
    Constructed(ResnetGenerator(args.input_nc, args.output_nc, args.ngf, args.norm_layer,
                                args.use_dropout, args.n_blocks, args.padding_type))

ResnetGenerator_forward ==
    /\ net.t = "ResnetGenerator"
    /\ input = NoTensor
    /\ input' = Tensor(args.b, net.input_nc, args.h, args.w)
    /\ output' = ResnetGeneratorForward(net, input')
    /\ UNCHANGED <<args, net, acts, inst, lastcall, err, gp>>

ResnetNext == ResnetGenerator_init \/ ResnetGenerator_forward

SpecResnet == ResnetInit /\ [][ResnetNext]_vars

\* one run of a ResnetBlock on its own: the constructor, then forward on a
\* batch with dim channels
MaxBlockSide == 6

BlockPaddingTypes == PaddingTypes \cup {"circular", ""}

BlockArgs ==
    [dim : {4, 16}, padding_type : BlockPaddingTypes, norm_layer : NormLayers,
     use_dropout : BOOLEAN, use_bias : BOOLEAN, b : Batches, h : 1..MaxBlockSide,
     w : 1..MaxBlockSide]

BlockInit == args \in BlockArgs /\ GenIdle /\ LossIdle

\* ResnetBlock.__init__: the block, or the exception of build_conv_block
ResnetBlock_init ==
    /\ net = NoNet /\ err = ""
    /\ LET r == ResnetBlock(args.dim, args.padding_type, args.norm_layer, args.use_dropout,
                            args.use_bias)
       IN  IF r.t = "Error" THEN net' = net /\ err' = r.err
           ELSE net' = r /\ err' = err
    /\ UNCHANGED <<args, input, output, acts, inst, lastcall, gp>>

\* ResnetBlock.forward: out = x + self.conv_block(x)
ResnetBlock_forward ==
    /\ net.t = "ResnetBlock"
    /\ input = NoTensor
    /\ input' = Tensor(args.b, args.dim, args.h, args.w)
    /\ acts' = [t |-> "ResnetBlock", branch |-> Sequential(net.conv_block, input')]
    /\ output' = Forward(net, input')
    /\ UNCHANGED <<args, net, inst, lastcall, err, gp>>

BlockNext == ResnetBlock_init \/ ResnetBlock_forward

SpecBlock == BlockInit /\ [][BlockNext]_vars

NextArgs ==
    [kind : {"convnext", "invnext"}, input_nc : InChannels, output_nc : OutChannels,
     ngf : BaseWidths, b : Batches, h : NextSides, w : NextSides]

NextInit == args \in NextArgs /\ GenIdle /\ LossIdle

ConvnextGenerator_init ==
    /\ args.kind = "convnext"
    /\ Constructed(ConvnextGenerator(args.input_nc, args.output_nc, args.ngf))

InvnextGenerator_init ==
    /\ args.kind = "invnext"
    /\ Constructed(InvnextGenerator(args.input_nc, args.output_nc, args.ngf))

ConvnextGenerator_forward ==
    /\ net.t = "ConvnextGenerator"
    /\ input = NoTensor
    /\ input' = Tensor(args.b, net.input_nc, args.h, args.w)
    /\ acts' = NextForward(net, input')
    /\ output' = acts'.y
    /\ UNCHANGED <<args, net, inst, lastcall, err, gp>>

InvnextGenerator_forward ==
    /\ net.t = "InvnextGenerator"
    /\ input = NoTensor
    /\ input' = Tensor(args.b, net.input_nc, args.h, args.w)
    /\ acts' = NextForward(net, input')
    /\ output' = acts'.y
    /\ UNCHANGED <<args, net, inst, lastcall, err, gp>>

NextNext == \/ ConvnextGenerator_init \/ InvnextGenerator_init
            \/ ConvnextGenerator_forward \/ InvnextGenerator_forward

SpecNext == NextInit /\ [][NextNext]_vars

UnetArgs ==
    [input_nc : InChannels, output_nc : OutChannels, num_downs : NumDowns, ngf : UnetWidths,
     norm_layer : NormLayers, use_dropout : BOOLEAN, b : Batches, h : UnetSides,
     w : UnetSides]

UnetInit == args \in UnetArgs /\ GenIdle /\ LossIdle

UnetGenerator_init ==
    Constructed(UnetGenerator(args.input_nc, args.output_nc, args.num_downs, args.ngf,
                              args.norm_layer, args.use_dropout))

UnetGenerator_forward ==
    /\ net.t = "UnetGenerator"
    /\ input = NoTensor
    /\ input' = Tensor(args.b, net.input_nc, args.h, args.w)
    /\ output' = UnetGeneratorForward(net, input')
    /\ acts' = [t |-> "Unet", bottleneck |-> Bottleneck(net.model, input'),
                levels |-> LevelOutputs(net.model, input')]
    /\ UNCHANGED <<args, net, inst, lastcall, err, gp>>

UnetNext == UnetGenerator_init \/ UnetGenerator_forward

SpecUnet == UnetInit /\ [][UnetNext]_vars

(***************************************************************************)
(* GANLoss.  Label values are kept in tenths: random.randint(a, b) * 0.1   *)
(* is represented by the drawn integer.                                    *)
(***************************************************************************)
RealLow == 7
RealHigh == 12
FakeLow == 0
FakeHigh == 3

\* random.randint(7, 12): both ends included
RealDraws == RealLow..RealHigh

\* random.randint(0, 4): a fake label of 0.4 becomes possible
FakeDraws_to_four == FakeLow..(FakeHigh + 1)

\* random.randint(0, 3): both ends included
FakeDraws == FakeLow..FakeHigh

\* another value random.randint(7, 12) can return
Redrawn(label) == RealLow + ((label + 1 - RealLow) % (RealHigh + 1 - RealLow))

GanModes == {"lsgan", "binary", "vanilla", "wgangp", "hinge", ""}

NoInst == [t |-> "None"]

\* GANLoss.__init__ without the final else: an unknown mode leaves an instance
\* that has no loss object
GANLoss_no_raise(gan_mode, target_real_label, target_fake_label) ==
    [ok |-> TRUE, err |-> "",
     self |-> [t |-> "GANLoss", real_label |-> target_real_label,
               fake_label |-> target_fake_label,
               A_label |-> <<1, 1, 1, 1>>, B_label |-> <<0, 0, 0, 0>>,
               gan_mode |-> gan_mode,
               loss |-> IF gan_mode = "lsgan" THEN "MSELoss"
                        ELSE IF gan_mode = "binary" THEN "CrossEntropyLoss"
                        ELSE IF gan_mode = "vanilla" THEN "BCEWithLogitsLoss"
                        ELSE "None"]]

\* GANLoss.__init__ with the two labels it drew: the instance, or the error raised
GANLoss(gan_mode, target_real_label, target_fake_label) ==
    LET made(loss) == [ok |-> TRUE, err |-> "",
                       self |-> [t |-> "GANLoss", real_label |-> target_real_label,
                                 fake_label |-> target_fake_label,
                                 A_label |-> <<1, 1, 1, 1>>, B_label |-> <<0, 0, 0, 0>>,
                                 gan_mode |-> gan_mode, loss |-> loss]]
    IN  IF gan_mode = "lsgan" THEN made("MSELoss")
        ELSE IF gan_mode = "binary" THEN made("CrossEntropyLoss")
        ELSE IF gan_mode = "vanilla" THEN made("BCEWithLogitsLoss")
        ELSE IF gan_mode \in {"wgangp"} THEN made("None")
        ELSE [ok |-> FALSE,
              err |-> "NotImplementedError: gan mode " \o gan_mode \o " not implemented",
              self |-> NoInst]

\* a prediction tensor of shape (rows, cols) whose entries alternate a, b
Prediction(rows, cols, a, b) ==
    [rows |-> rows, cols |-> cols,
     vals |-> [i \in 1..(rows * cols) |-> IF i % 2 = 1 THEN a ELSE b]]

PredShapes == {<<1, 1>>, <<2, 1>>, <<2, 2>>, <<4, 2>>}

PredValues == (0 - 1)..MaxPredValue

Predictions ==
    {Prediction(sh[1], sh[2], a, b) : sh \in PredShapes, a \in PredValues, b \in PredValues}

RECURSIVE SumSeq(_)
SumSeq(v) == IF v = <<>> THEN 0 ELSE Head(v) + SumSeq(Tail(v))

\* a loss value: the rational num / den, or, for the losses that are not
\* rational functions of their arguments, the loss object applied (den = 0)
Value(fn, num, den) == [fn |-> fn, num |-> num, den |-> den]

\* prediction.mean()
Mean(prediction) == Value("mean", SumSeq(prediction.vals), Len(prediction.vals))

Neg(v) == Value(v.fn, 0 - v.num, v.den)

\* get_target_tensor drawing the real label again at every call
get_target_tensor_resampling(self, prediction, target_is_real) ==
    LET again == [self EXCEPT !.real_label = Redrawn(self.real_label)]
    IN  [self |-> again,
         target |-> IF target_is_real THEN <<again.real_label>> ELSE <<again.fake_label>>]

\* GANLoss.get_target_tensor: the label buffer, expanded to the prediction
get_target_tensor(self, prediction, target_is_real) ==
    [self |-> self,
     target |-> IF target_is_real THEN <<self.real_label>> ELSE <<self.fake_label>>]

\* GANLoss.get_target_tensorAB
get_target_tensorAB(self, prediction, target_is_real) ==
    IF target_is_real THEN self.A_label ELSE self.B_label

\* nn.MSELoss()(prediction, target) with the target in tenths
MSELoss(prediction, target) ==
    Value("MSELoss",
          SumSeq([i \in 1..Len(prediction.vals) |->
                     (10 * prediction.vals[i] - target[1]) * (10 * prediction.vals[i] - target[1])]),
          100 * Len(prediction.vals))

\* nn.CrossEntropyLoss()(prediction, target): the prediction holds one row of
\* class scores per target entry, and every target is a class index
CrossEntropyLoss(prediction, target) ==
    IF prediction.rows # Len(target)
    THEN Value("ValueError: expected input batch_size to match target batch_size", 0, 0)
    ELSE IF \E i \in 1..Len(target) : target[i] >= prediction.cols
    THEN Value("IndexError: target is out of bounds", 0, 0)
    ELSE Value("CrossEntropyLoss", 0, 0)

\* nn.BCEWithLogitsLoss()(prediction, target) with the target t in tenths:
\* mean(softplus(x)) - t * mean(x).  The first term depends on the prediction
\* only and is left in the name of the loss; num / den is the second term.
BCEWithLogitsLoss(prediction, target) ==
    Value("BCEWithLogitsLoss", 0 - target[1] * SumSeq(prediction.vals),
          10 * Len(prediction.vals))

\* the loss object self.loss applied to a prediction and a target
LossObject(name, prediction, target) ==
    IF name = "MSELoss" THEN MSELoss(prediction, target)
    ELSE IF name = "BCEWithLogitsLoss" THEN BCEWithLogitsLoss(prediction, target)
    ELSE Value(name, 0, 0)

\* the wgangp branch returning the plain mean for both flags
WganLoss_unsigned(prediction, target_is_real) == Mean(prediction)

\* the branch of GANLoss.__call__ for gan_mode == 'wgangp'
WganLoss(prediction, target_is_real) ==
    IF target_is_real THEN Neg(Mean(prediction)) ELSE Mean(prediction)

\* a __call__ whose wgangp branch measures the prediction against the label
GANLoss_call_wgan_to_label(self, prediction, target_is_real) ==
    IF self.gan_mode \in {"lsgan", "vanilla", "wgangp"}
    THEN LET got == get_target_tensor(self, prediction, target_is_real)
         IN  [branch |-> IF self.gan_mode = "wgangp" THEN "wgangp" ELSE "lsgan, vanilla",
              self |-> got.self, target |-> got.target,
              loss |-> IF self.gan_mode = "wgangp" THEN MSELoss(prediction, got.target)
                       ELSE LossObject(self.loss, prediction, got.target)]
    ELSE IF self.gan_mode = "binary"
    THEN LET target_tensor == get_target_tensorAB(self, prediction, target_is_real)
         IN  [branch |-> "binary", self |-> self, target |-> target_tensor,
              loss |-> CrossEntropyLoss(prediction, target_tensor)]
    ELSE [branch |-> "none", self |-> self, target |-> <<>>,
          loss |-> Value("UnboundLocalError: loss referenced before assignment", 0, 0)]

\* GANLoss.__call__: the branch taken, the target tensor built, the value
\* returned and the instance afterwards
GANLoss_call(self, prediction, target_is_real) ==
    IF self.gan_mode \in {"lsgan", "vanilla"}
    THEN LET got == get_target_tensor(self, prediction, target_is_real)
         IN  [branch |-> "lsgan, vanilla", self |-> got.self, target |-> got.target,
              loss |-> LossObject(self.loss, prediction, got.target)]
    ELSE IF self.gan_mode = "binary"
    THEN LET target_tensor == get_target_tensorAB(self, prediction, target_is_real)
         IN  [branch |-> "binary", self |-> self, target |-> target_tensor,
              loss |-> CrossEntropyLoss(prediction, target_tensor)]
    ELSE IF self.gan_mode = "wgangp"
    THEN [branch |-> "wgangp", self |-> self, target |-> <<>>,
          loss |-> WganLoss(prediction, target_is_real)]
    ELSE [branch |-> "none", self |-> self, target |-> <<>>,
          loss |-> Value("UnboundLocalError: loss referenced before assignment", 0, 0)]

(***************************************************************************)
(* State machine of one GANLoss object: constructed once, then called any  *)
(* number of times.                                                        *)
(***************************************************************************)
NoCall == [op |-> "none"]

LossInit == /\ args = NoCall
            /\ GenIdle
            /\ inst = NoInst
            /\ lastcall = NoCall
            /\ err = ""
            /\ gp = NoCall

NewGANLoss ==
    /\ inst = NoInst
    /\ \E gan_mode \in GanModes, r \in RealDraws, f \in FakeDraws :
        LET new == GANLoss(gan_mode, r, f)
        IN  /\ inst' = new.self
            /\ err' = new.err
            /\ lastcall' = [op |-> "__init__", gan_mode |-> gan_mode]
    /\ UNCHANGED <<args, net, input, output, acts, gp>>

CallGANLoss ==
    /\ inst.t = "GANLoss"
    /\ \E prediction \in Predictions, target_is_real \in BOOLEAN :
        LET r == GANLoss_call(inst, prediction, target_is_real)
        IN  /\ inst' = r.self
            /\ lastcall' = [op |-> "__call__", prediction |-> prediction,
                            target_is_real |-> target_is_real, branch |-> r.branch,
                            target |-> r.target, loss |-> r.loss]
    /\ UNCHANGED <<args, net, input, output, acts, err, gp>>

LossNext == NewGANLoss \/ CallGANLoss

SpecLoss == LossInit /\ [][LossNext]_vars

(***************************************************************************)
(* cal_gradient_penalty.  The discriminator is an arbitrary callable: it   *)
(* returns or raises.  The penalty itself depends on the discriminator's   *)
(* gradients and is kept symbolic.                                         *)
(***************************************************************************)
MaxLambdaGp == 2
MaxConstant == 1
MaxNetDCalls == 3

LambdaGps == (0 - 1)..MaxLambdaGp
GpConstants == 0..MaxConstant
GpTypes == {"real", "fake", "mixed", "", "interp"}
NetDs == {"returns", "raises"}

Returned(value) == [err |-> "", value |-> value]
Raised(msg) == [err |-> msg, value |-> <<>>]

\* the guard that accepts every non-negative weight
Penalised_from_zero(lambda_gp) == lambda_gp >= 0

\* if lambda_gp > 0.0
Penalised(lambda_gp) == lambda_gp > 0

\* the dispatch on type with 'mixed' as the fall-through
Interpolates_else_mixed(type) ==
    IF type = "real" THEN "real_data"
    ELSE IF type = "fake" THEN "fake_data"
    ELSE "interpolatesv"

\* the tensor the dispatch on type selects: an input batch itself, or the
\* new tensor mixed from both; "raise" for any other name
Interpolates(type) ==
    IF type = "real" THEN "real_data"
    ELSE IF type = "fake" THEN "fake_data"
    ELSE IF type = "mixed" THEN "interpolatesv"
    ELSE "raise"

\* cal_gradient_penalty: what it returns or raises, whether netD was evaluated
\* and the tensor it marked with requires_grad_(True)
cal_gradient_penalty(netD, type, constant, lambda_gp) ==
    IF Penalised(lambda_gp)
    THEN LET interpolatesv == Interpolates(type)
         IN  IF interpolatesv = "raise"
             THEN [ret |-> Raised("NotImplementedError: " \o type \o " not implemented"),
                   evaluated |-> FALSE, marked |-> {}]
             ELSE [ret |-> IF netD = "raises" THEN Raised("netD raised")
                           ELSE Returned(<<"gradient_penalty", "gradients">>),
                   evaluated |-> TRUE, marked |-> {interpolatesv}]
    ELSE [ret |-> Returned(<<"0.0", "None">>), evaluated |-> FALSE, marked |-> {}]

GpInit == /\ args = NoCall
          /\ GenIdle
          /\ inst = NoInst
          /\ lastcall = NoCall
          /\ err = ""
          /\ gp = [op |-> "none", netD_calls |-> 0, requires_grad |-> {}]

\* one call; netD_calls counts the evaluations of the discriminator and
\* requires_grad holds the caller's batches that have been marked so far
Call_cal_gradient_penalty ==
    /\ gp.netD_calls < MaxNetDCalls
    /\ \E netD \in NetDs, type \in GpTypes, constant \in GpConstants, lambda_gp \in LambdaGps :
        LET r == cal_gradient_penalty(netD, type, constant, lambda_gp)
        IN  gp' = [op |-> "cal_gradient_penalty", netD |-> netD, type |-> type,
                   constant |-> constant, lambda_gp |-> lambda_gp,
                   ret |-> r.ret, evaluated |-> r.evaluated, marked |-> r.marked,
                   netD_calls |-> gp.netD_calls + (IF r.evaluated THEN 1 ELSE 0),
                   requires_grad |-> gp.requires_grad \cup (r.marked \cap {"real_data", "fake_data"})]
    /\ UNCHANGED <<args, net, input, output, acts, inst, lastcall, err>>

GpNext == Call_cal_gradient_penalty

SpecGP == GpInit /\ [][GpNext]_vars

(***************************************************************************)
(* ConvnextBIGenerator                                                     *)
(***************************************************************************)
\* the members of ConvnextBIGenerator.__init__
BIMembers(input_nc, output_nc, ngf) ==
    LET features == ngf
    IN  [encoder1 |-> <<Conv2d(input_nc, features, 4, 4, 0, TRUE, ""), LayerNorm(features)>>,
         encoder2 |-> <<Conv2d(features, features * 2, 2, 2, 0, TRUE, ""),
                        LayerNorm(features * 2)>>,
         encoder3 |-> <<Conv2d(features * 2, features * 4, 2, 2, 0, TRUE, ""),
                        LayerNorm(features * 4)>>,
         encoder4 |-> <<Conv2d(features * 4, features * 8, 2, 2, 0, TRUE, ""),
                        LayerNorm(features * 8)>>,
         decoder4 |-> <<Resize(14, 14), Conv2d(features * 8, features * 4, 1, 1, 0, TRUE, ""),
                        LayerNorm(features * 4)>>,
         decoder3 |-> <<Resize(28, 28), Conv2d(features * 4, features * 2, 1, 1, 0, TRUE, ""),
                        LayerNorm(features * 2)>>,
         decoder2 |-> <<ConvTranspose2d(features * 2, features, 2, 2, 0, 0, TRUE, ""),
                        LayerNorm(features)>>,
         decoder1 |-> <<ConvTranspose2d(features, output_nc, 4, 4, 0, 0, TRUE, ""),
                        LayerNorm(output_nc)>>,
         decoder0 |-> <<Resize(224, 224),
                        ConvTranspose2d(output_nc, output_nc, 1, 1, 0, 0, TRUE, ""),
                        LayerNorm(output_nc)>>,
         upconv4 |-> <<Conv2d(features * 8, features * 4, 3, 1, 1, FALSE, ""),
                       LayerNorm(features * 4)>>,
         upconv3 |-> <<Conv2d(features * 4, features * 2, 3, 1, 1, FALSE, ""),
                       LayerNorm(features * 2)>>,
         upconv2 |-> <<Conv2d(features * 2, features, 3, 1, 1, FALSE, ""),
                       LayerNorm(features)>>,
         upconv1 |-> <<Conv2d(features * 8, features * 4, 3, 1, 1, FALSE, ""),
                       LayerNorm(features * 4)>>,
         act |-> Act("Tanh", "")]

\* ConvnextBIGenerator.__init__
ConvnextBIGenerator(input_nc, output_nc, ngf) ==
    [t |-> "ConvnextBIGenerator", input_nc |-> input_nc, output_nc |-> output_nc,
     ngf |-> ngf,
     blocks |-> [i \in 1..4 |-> [j \in 1..depths[i] |-> Block(dims[i])]],
     m |-> BIMembers(input_nc, output_nc, ngf)]

\* one run of ConvnextBIGenerator
MaxBISide == 232

BISides == {s \in 1..MaxBISide : s >= 220}

BIArgs ==
    [input_nc : InChannels, output_nc : OutChannels, ngf : BaseWidths,
     b : Batches, h : BISides, w : BISides]

BIInit == args \in BIArgs /\ GenIdle /\ LossIdle

ConvnextBIGenerator_init ==
    Constructed(ConvnextBIGenerator(args.input_nc, args.output_nc, args.ngf))

ConvnextBIGenerator_forward ==
    /\ net.t = "ConvnextBIGenerator"
    /\ input = NoTensor
    /\ input' = Tensor(args.b, args.input_nc, args.h, args.w)
    /\ acts' = NextForward(net, input')
    /\ output' = acts'.y
    /\ UNCHANGED <<args, net, inst, lastcall, err, gp>>

BINext == ConvnextBIGenerator_init \/ ConvnextBIGenerator_forward

SpecBI == BIInit /\ [][BINext]_vars

\* one run of any of the three ConvNeXt generators: plain, involution and
\* interpolation
MaxFamilySide == 225

FamilySides == {s \in 1..MaxFamilySide : s % 32 \in {0, 1}}

FamilyKinds == {"ConvnextGenerator", "InvnextGenerator", "ConvnextBIGenerator"}

FamilyArgs ==
    [kind : FamilyKinds, input_nc : InChannels, output_nc : OutChannels,
     ngf : BaseWidths, b : Batches, h : FamilySides, w : FamilySides]

FamilyInit == args \in FamilyArgs /\ GenIdle /\ LossIdle

\* the constructor of the class args.kind
Family_init ==
    Constructed(CASE args.kind = "ConvnextGenerator" ->
                         ConvnextGenerator(args.input_nc, args.output_nc, args.ngf)
                  [] args.kind = "InvnextGenerator" ->
                         InvnextGenerator(args.input_nc, args.output_nc, args.ngf)
                  [] args.kind = "ConvnextBIGenerator" ->
                         ConvnextBIGenerator(args.input_nc, args.output_nc, args.ngf))

\* forward of the network built
Family_forward ==
    /\ net.t \in FamilyKinds
    /\ input = NoTensor
    /\ input' = Tensor(args.b, net.input_nc, args.h, args.w)
    /\ acts' = NextForward(net, input')
    /\ output' = acts'.y
    /\ UNCHANGED <<args, net, inst, lastcall, err, gp>>

FamilyNext == Family_init \/ Family_forward

SpecFamily == FamilyInit /\ [][FamilyNext]_vars

(***************************************************************************)
(* The discriminators                                                      *)
(***************************************************************************)
MaxDLayers == 4
MaxDSide == 256
MaxDBatch == 5

\* kw and padw of NLayerDiscriminator.__init__
kw == 4
padw == 1

\* nf_mult = min(2 ** n, 8)
NfMult(n) == Min(2^n, 8)

\* the layers added by "for n in range(1, n_layers)", from n on
RECURSIVE DStridedLayers(_, _, _, _, _)
DStridedLayers(n, n_layers, ndf, norm_layer, use_bias) ==
    IF n >= n_layers THEN <<>>
    ELSE <<Conv2d(ndf * NfMult(n - 1), ndf * NfMult(n), kw, 2, padw, use_bias, ""),
           Norm(norm_layer, ndf * NfMult(n), ""),
           Act("LeakyReLU", "")>>
         \o DStridedLayers(n + 1, n_layers, ndf, norm_layer, use_bias)

\* a last convolution that keeps the size of the map (3x3, padding 1)
DOutputConv_same(ndf, nf_mult) == <<Conv2d(ndf * nf_mult, 1, 3, 1, padw, TRUE, "")>>

\* the last convolution of NLayerDiscriminator: the 1-channel prediction map
DOutputConv(ndf, nf_mult) == <<Conv2d(ndf * nf_mult, 1, kw, 1, padw, TRUE, "")>>

\* NLayerDiscriminator.__init__
NLayerDiscriminator(input_nc, ndf, n_layers, norm_layer) ==
    LET use_bias == norm_layer = "InstanceNorm2d"
        nf_mult_prev == NfMult(Max(n_layers - 1, 0))
        nf_mult == NfMult(n_layers)
    IN  [t |-> "NLayerDiscriminator", input_nc |-> input_nc, n_layers |-> n_layers,
         model |-> <<Conv2d(input_nc, ndf, kw, 2, padw, TRUE, ""), Act("LeakyReLU", "")>>
                   \o DStridedLayers(1, n_layers, ndf, norm_layer, use_bias)
                   \o <<Conv2d(ndf * nf_mult_prev, ndf * nf_mult, kw, 1, padw, use_bias, ""),
                        Norm(norm_layer, ndf * nf_mult, ""),
                        Act("LeakyReLU", "")>>
                   \o DOutputConv(ndf, nf_mult)]

\* NLayerDiscriminator.forward
NLayerDiscriminatorForward(self, x) == Sequential(self.model, x)

\* PixelDiscriminator.__init__
PixelDiscriminator(input_nc, ndf, norm_layer) ==
    LET use_bias == norm_layer = "InstanceNorm2d"
    IN  [t |-> "PixelDiscriminator", input_nc |-> input_nc,
         net |-> <<Conv2d(input_nc, ndf, 1, 1, 0, TRUE, ""),
                   Act("LeakyReLU", ""),
                   Conv2d(ndf, ndf * 2, 1, 1, 0, use_bias, ""),
                   Norm(norm_layer, ndf * 2, ""),
                   Act("LeakyReLU", ""),
                   Conv2d(ndf * 2, 1, 1, 1, 0, use_bias, "")>>]

\* PixelDiscriminator.forward
PixelDiscriminatorForward(self, x) == Sequential(self.net, x)

\* one stage of Discriminator_Classify.conv
ClassifyStage(cin, cout, k) ==
    <<Conv2d(cin, cout, k, 2, 1, TRUE, ""), Norm("BatchNorm2d", cout, ""), Act("LeakyReLU", "")>>

\* Discriminator_Classify.__init__
Discriminator_Classify(input_nc, ndf) ==
    [t |-> "Discriminator_Classify", input_nc |-> input_nc, ndf |-> ndf,
     conv |-> ClassifyStage(input_nc, ndf, 4) \o ClassifyStage(ndf, ndf * 2, 4)
              \o ClassifyStage(ndf * 2, ndf * 4, 4) \o ClassifyStage(ndf * 4, ndf * 8, 4)
              \o ClassifyStage(ndf * 8, ndf * 16, 4) \o ClassifyStage(ndf * 16, ndf * 32, 3),
     classify |-> [in_features |-> ndf * 32 * 16, out_features |-> 2]]

\* a 2-D tensor
Matrix(rows, cols) == [ok |-> TRUE, rows |-> rows, cols |-> cols, err |-> ""]

\* a reshape to one row per sample of the batch
View_per_sample(x) == Matrix(x.b, x.c * x.h * x.w)

\* conv_out.view(4, -1)
View4(x) ==
    IF (x.b * x.c * x.h * x.w) % 4 # 0
    THEN Raise("RuntimeError: shape '[4, -1]' is invalid for input")
    ELSE Matrix(4, (x.b * x.c * x.h * x.w) \div 4)

\* nn.Linear on a 2-D tensor
LinearForward2d(m, x) ==
    IF x.cols # m.in_features
    THEN Raise("RuntimeError: mat1 and mat2 shapes cannot be multiplied")
    ELSE Matrix(x.rows, m.out_features)

\* the tensors leaving the convolutions of a sequence of layers applied to x
RECURSIVE ConvTrace(_, _)
ConvTrace(layers, x) ==
    IF layers = <<>> \/ ~x.ok THEN <<>>
    ELSE LET y == Forward(Head(layers), x)
         IN  (IF Head(layers).t = "Conv2d" THEN <<y>> ELSE <<>>) \o ConvTrace(Tail(layers), y)

\* Discriminator_Classify.forward
Discriminator_ClassifyForward(self, x) ==
    LET conv_out == Sequential(self.conv, x)
    IN  IF ~conv_out.ok THEN conv_out
        ELSE LET flat == View4(conv_out)
             IN  IF ~flat.ok THEN flat ELSE LinearForward2d(self.classify, flat)

\* one run: a discriminator is constructed and applied to one batch
DSides == {s \in 1..MaxDSide : s <= 6 \/ s % 32 \in {0, 31}}
DBatches == 1..MaxDBatch
DWidths == {4, 96}

DiscArgs ==
    [kind : {"NLayerDiscriminator"}, input_nc : InChannels, ndf : {4},
     n_layers : 0..MaxDLayers, norm_layer : NormLayers, b : Batches, h : DSides, w : DSides]
    \cup [kind : {"PixelDiscriminator"}, input_nc : InChannels, ndf : {4},
          norm_layer : NormLayers, b : Batches, h : DSides, w : DSides]
    \cup [kind : {"Discriminator_Classify"}, input_nc : InChannels, ndf : DWidths,
          b : DBatches, h : DSides, w : DSides]

DiscInit == /\ args \in DiscArgs
            /\ GenIdle
            /\ LossIdle

NLayerDiscriminator_init ==
    /\ args.kind = "NLayerDiscriminator"
    /\ Constructed(NLayerDiscriminator(args.input_nc, args.ndf, args.n_layers, args.norm_layer))

PixelDiscriminator_init ==
    /\ args.kind = "PixelDiscriminator"
    /\ Constructed(PixelDiscriminator(args.input_nc, args.ndf, args.norm_layer))

Discriminator_Classify_init ==
    /\ args.kind = "Discriminator_Classify"
    /\ Constructed(Discriminator_Classify(args.input_nc, args.ndf))

NLayerDiscriminator_forward ==
    /\ net.t = "NLayerDiscriminator"
    /\ input = NoTensor
    /\ input' = Tensor(args.b, args.input_nc, args.h, args.w)
    /\ output' = NLayerDiscriminatorForward(net, input')
    /\ acts' = [t |-> "NLayer", convs |-> ConvTrace(net.model, input')]
    /\ UNCHANGED <<args, net, inst, lastcall, err, gp>>

PixelDiscriminator_forward ==
    /\ net.t = "PixelDiscriminator"
    /\ input = NoTensor
    /\ input' = Tensor(args.b, args.input_nc, args.h, args.w)
    /\ output' = PixelDiscriminatorForward(net, input')
    /\ acts' = [t |-> "Pixel", convs |-> ConvTrace(net.net, input')]
    /\ UNCHANGED <<args, net, inst, lastcall, err, gp>>

Discriminator_Classify_forward ==
    /\ net.t = "Discriminator_Classify"
    /\ input = NoTensor
    /\ input' = Tensor(args.b, args.input_nc, args.h, args.w)
    /\ output' = Discriminator_ClassifyForward(net, input')
    /\ acts' = [t |-> "Classify", convs |-> ConvTrace(net.conv, input')]
    /\ UNCHANGED <<args, net, inst, lastcall, err, gp>>

DiscNext == \/ NLayerDiscriminator_init \/ NLayerDiscriminator_forward
            \/ PixelDiscriminator_init \/ PixelDiscriminator_forward
            \/ Discriminator_Classify_init \/ Discriminator_Classify_forward

SpecDisc == DiscInit /\ [][DiscNext]_vars

(***************************************************************************)
(* get_norm_layer.  The callable it returns is named by the class it       *)
(* produces, as the norm_layer argument of the constructors above is.      *)
(***************************************************************************)
NormTypes == {"batch", "instance", "layer", "none", "group", ""}

\* get_norm_layer: the callable returned, or the exception raised.  For
\* 'layer' the statement LayerNorm() calls LayerNorm.__init__ without its
\* required argument normalized_shape, which raises TypeError.
get_norm_layer(norm_type) ==
    IF norm_type = "batch" THEN [ok |-> TRUE, err |-> "", norm_layer |-> "BatchNorm2d"]
    ELSE IF norm_type = "instance" THEN [ok |-> TRUE, err |-> "", norm_layer |-> "InstanceNorm2d"]
    ELSE IF norm_type = "layer"
    THEN [ok |-> FALSE,
          err |-> "TypeError: __init__() missing 1 required positional argument: 'normalized_shape'",
          norm_layer |-> "None"]
    ELSE IF norm_type = "none" THEN [ok |-> TRUE, err |-> "", norm_layer |-> "Identity"]
    ELSE [ok |-> FALSE,
          err |-> "NotImplementedError: normalization layer [" \o norm_type \o "] is not found",
          norm_layer |-> "None"]

(***************************************************************************)
(* init_weights and init_net.  A network is seen as net.apply sees it: the *)
(* class names of its modules, children before their parent.               *)
(***************************************************************************)
RECURSIVE LayerClasses(_)
RECURSIVE ModuleClasses(_)

\* the modules of one member of a module list
ModuleClasses(m) ==
    CASE m.t = "ResnetBlock" -> LayerClasses(m.conv_block) \o <<"Sequential", "ResnetBlock">>
      [] m.t = "UnetSkipConnectionBlock" ->
            LayerClasses(m.model) \o <<"Sequential", "UnetSkipConnectionBlock">>
      [] m.t = "Block" -> <<"Conv2d", "LayerNorm", "Linear", "GELU", "Linear", "Identity", "Block">>
      [] m.t = "InvBlock" ->
            <<"Involution2d", "LayerNorm", "Linear", "GELU", "Linear", "Identity", "InvBlock">>
      [] OTHER -> <<m.t>>

LayerClasses(layers) ==
    IF layers = <<>> THEN <<>>
    ELSE ModuleClasses(Head(layers)) \o LayerClasses(Tail(layers))

\* the members of a ConvNeXt-family generator, in the order of registration
NextMemberClasses(self) ==
    LayerClasses(self.blocks[1]) \o LayerClasses(self.blocks[2])
    \o LayerClasses(self.blocks[3]) \o LayerClasses(self.blocks[4])
    \o LayerClasses(self.m.encoder1) \o LayerClasses(self.m.encoder2)
    \o LayerClasses(self.m.encoder3) \o LayerClasses(self.m.encoder4)
    \o LayerClasses(self.m.decoder4) \o LayerClasses(self.m.decoder3)
    \o LayerClasses(self.m.decoder2) \o LayerClasses(self.m.decoder1)
    \o (IF self.t = "ConvnextBIGenerator" THEN LayerClasses(self.m.decoder0) ELSE <<>>)
    \o LayerClasses(self.m.upconv4) \o LayerClasses(self.m.upconv3)
    \o LayerClasses(self.m.upconv2) \o LayerClasses(self.m.upconv1)
    \o <<"Tanh">>

\* the class names net.apply visits for a network of this repository
NetClasses(self) ==
    CASE self.t = "ResnetGenerator" -> LayerClasses(self.model) \o <<"Sequential", self.t>>
      [] self.t = "UnetGenerator" -> ModuleClasses(self.model) \o <<self.t>>
      [] self.t \in {"ConvnextGenerator", "InvnextGenerator", "ConvnextBIGenerator"} ->
            NextMemberClasses(self) \o <<self.t>>
      [] self.t = "NLayerDiscriminator" -> LayerClasses(self.model) \o <<"Sequential", self.t>>
      [] self.t = "PixelDiscriminator" -> LayerClasses(self.net) \o <<"Sequential", self.t>>
      [] self.t = "Discriminator_Classify" ->
            LayerClasses(self.conv) \o <<"Sequential", "Linear", "Sequential", self.t>>

\* a test that finds a weight on every module
HasWeight_any(classname) == TRUE

\* hasattr(m, 'weight')
HasWeight(classname) ==
    classname \in {"Conv2d", "ConvTranspose2d", "Linear", "BatchNorm2d", "InstanceNorm2d",
                   "LayerNorm"}

\* classname.find('Conv') != -1 or classname.find('Linear') != -1
NamedConvOrLinear(classname) ==
    classname \in {"Conv2d", "ConvTranspose2d", "Linear", "ConvBlock", "ConvnextGenerator",
                   "ConvnextBIGenerator"}

\* a test that sends every module to the dispatch on init_type
Dispatched_every_module(classname) == TRUE

\* the condition under which init_func reaches the dispatch on init_type
Dispatched(classname) == HasWeight(classname) /\ NamedConvOrLinear(classname)

InitTypes == {"normal", "xavier", "kaiming", "orthogonal", "uniform", ""}

ValidInitTypes == {"normal", "xavier", "kaiming", "orthogonal"}

\* an init_weights that checks init_type only after the whole visit: every
\* BatchNorm2d is initialised before the error is raised at the last module
init_weights_checked_last(classes, init_type) ==
    LET hits == {i \in 1..Len(classes) : Dispatched(classes[i])}
        norms == {i \in 1..Len(classes) : ~Dispatched(classes[i]) /\ classes[i] = "BatchNorm2d"}
    IN  IF init_type \notin ValidInitTypes /\ hits # {}
        THEN [ok |-> FALSE,
              err |-> "NotImplementedError: initialization method [" \o init_type
                      \o "] is not implemented",
              initialised |-> norms, raised_at |-> Len(classes),
              before_raise |-> SubSeq(classes, 1, Len(classes) - 1)]
        ELSE [ok |-> TRUE, err |-> "", initialised |-> hits \cup norms, raised_at |-> 0,
              before_raise |-> <<>>]

\* init_weights: net.apply(init_func) over the modules; it raises at the first
\* module that reaches the dispatch with an unknown init_type, and otherwise
\* initialises the convolutions, linear layers and BatchNorm2d layers.
\* raised_at is the position of the module at which it raised (0 if none)
\* and before_raise the modules visited before that one.
init_weights(classes, init_type) ==
    LET hits == {i \in 1..Len(classes) : Dispatched(classes[i])}
        norms == {i \in 1..Len(classes) : ~Dispatched(classes[i]) /\ classes[i] = "BatchNorm2d"}
        first == CHOOSE i \in hits : \A j \in hits : i <= j
    IN  IF init_type \notin ValidInitTypes /\ hits # {}
        THEN [ok |-> FALSE,
              err |-> "NotImplementedError: initialization method [" \o init_type
                      \o "] is not implemented",
              initialised |-> {i \in norms : i < first}, raised_at |-> first,
              before_raise |-> SubSeq(classes, 1, first - 1)]
        ELSE [ok |-> TRUE, err |-> "", initialised |-> hits \cup norms, raised_at |-> 0,
              before_raise |-> <<>>]

\* what one call of init_func leaves on a module: the parameters it does not
\* touch are "kept"
Untouched == [raised |-> FALSE, weight |-> "kept", bias |-> "kept"]

\* init_func(m) for a module of class classname
init_func(classname, init_type) ==
    IF Dispatched(classname)
    THEN IF init_type \in ValidInitTypes
         THEN [raised |-> FALSE, weight |-> init_type, bias |-> "zero if present"]
         ELSE [raised |-> TRUE, weight |-> "kept", bias |-> "kept"]
    ELSE IF classname = "BatchNorm2d"
    THEN [raised |-> FALSE, weight |-> "normal around 1", bias |-> "zero"]
    ELSE Untouched

\* net.apply(init_func): what the call leaves on each module, in the order of
\* the visit; the visit stops at the module where init_func raises
Applied_init_func(classes, init_type) ==
    LET raising == {i \in 1..Len(classes) : init_func(classes[i], init_type).raised}
        stop == IF raising = {} THEN Len(classes) + 1
                ELSE CHOOSE i \in raising : \A j \in raising : i <= j
    IN  [i \in 1..Len(classes) |->
            IF i <= stop THEN init_func(classes[i], init_type) ELSE Untouched]

\* init_net with gpu_ids=[]: the network after init_weights, or its exception
init_net(built, init_type) ==
    LET r == init_weights(NetClasses(built), init_type)
    IN  IF r.ok
        THEN [ok |-> TRUE, err |-> "", net |-> built, initialised |-> r.initialised,
              raised_at |-> 0, before_raise |-> <<>>]
        ELSE [ok |-> FALSE, err |-> r.err, net |-> NoNet, initialised |-> r.initialised,
              raised_at |-> r.raised_at, before_raise |-> r.before_raise]

(***************************************************************************)
(* define_G and define_D                                                   *)
(***************************************************************************)
\* the name tested at "elif netG == ..." for ConvnextBIGenerator, in lower case
InterpolationName_lower == "convnext_interpolation"

\* the name tested at "elif netG == ..." for ConvnextBIGenerator
InterpolationName == "Convnext_Interpolation"

\* a ResnetGenerator call that passes the selected normalization on
DefaultNorm_as_selected(norm_layer) == norm_layer

\* the norm_layer of a ResnetGenerator call that passes none: the default
\* norm_layer=nn.BatchNorm2d of ResnetGenerator.__init__, whatever define_G
\* selected
DefaultNorm(norm_layer) == "BatchNorm2d"

GeneratorNames ==
    {"resnet_9blocks", "resnet_6blocks", "resnet_1blocks", "convnext", "invnext",
     "Convnext_Interpolation", "convnext_interpolation", "unet_128", "unet_256",
     "unet_64", ""}

\* define_G with gpu_ids=[]: the initialised generator, or the exception raised
define_G(input_nc, output_nc, ngf, netG, norm, use_dropout, init_type) ==
    LET got == get_norm_layer(norm)
        norm_layer == got.norm_layer
        failed(msg) == [ok |-> FALSE, err |-> msg, net |-> NoNet, initialised |-> {},
                        raised_at |-> 0, before_raise |-> <<>>]
        made(built) == init_net(built, init_type)
    IN  IF ~got.ok THEN failed(got.err)
        ELSE IF netG = "resnet_9blocks"
        THEN made(ResnetGenerator(input_nc, output_nc, ngf, DefaultNorm(norm_layer), use_dropout, 9,
                                  "reflect"))
        ELSE IF netG = "resnet_6blocks"
        THEN made(ResnetGenerator(input_nc, output_nc, ngf, DefaultNorm(norm_layer), use_dropout, 6,
                                  "reflect"))
        ELSE IF netG = "resnet_1blocks"
        THEN made(ResnetGenerator(input_nc, output_nc, ngf, norm_layer, use_dropout, 1, "reflect"))
        ELSE IF netG = "convnext" THEN made(ConvnextGenerator(input_nc, output_nc, ngf))
        ELSE IF netG = "invnext" THEN made(InvnextGenerator(input_nc, output_nc, ngf))
        ELSE IF netG = InterpolationName THEN made(ConvnextBIGenerator(input_nc, output_nc, ngf))
        ELSE IF netG = "unet_128"
        THEN made(UnetGenerator(input_nc, output_nc, 7, ngf, norm_layer, use_dropout))
        ELSE IF netG = "unet_256"
        THEN made(UnetGenerator(input_nc, output_nc, 8, ngf, norm_layer, use_dropout))
        ELSE failed("NotImplementedError: Generator model name [" \o netG \o "] is not recognized")

DiscriminatorNames == {"basic", "n_layers", "pixel", "binary", "patch", ""}

\* 'basic' building the PatchGAN with the number of layers passed
BasicLayers_as_passed(n_layers_D) == n_layers_D

\* n_layers=3 of the 'basic' branch
BasicLayers(n_layers_D) == 3

\* define_D with gpu_ids=[]: the initialised discriminator, or the exception raised
define_D(input_nc, ndf, netD, n_layers_D, norm, init_type) ==
    LET got == get_norm_layer(norm)
        norm_layer == got.norm_layer
        failed(msg) == [ok |-> FALSE, err |-> msg, net |-> NoNet, initialised |-> {},
                        raised_at |-> 0, before_raise |-> <<>>]
        made(built) == init_net(built, init_type)
    IN  IF ~got.ok THEN failed(got.err)
        ELSE IF netD = "basic"
        THEN made(NLayerDiscriminator(input_nc, ndf, BasicLayers(n_layers_D), norm_layer))
        ELSE IF netD = "n_layers"
        THEN made(NLayerDiscriminator(input_nc, ndf, n_layers_D, norm_layer))
        ELSE IF netD = "pixel" THEN made(PixelDiscriminator(input_nc, ndf, norm_layer))
        ELSE IF netD = "binary" THEN made(Discriminator_Classify(input_nc, 96))
        ELSE failed("NotImplementedError: Discriminator model name [" \o netD
                    \o "] is not recognized")

(***************************************************************************)
(* One call of a factory function: its arguments are drawn in the initial  *)
(* state, the call leaves its result.                                      *)
(***************************************************************************)
\* module lists given to init_weights directly
SmallNets ==
    {<<>>, <<"Identity">>, <<"BatchNorm2d", "Sequential">>, <<"ReLU", "Tanh", "Sequential">>,
     <<"Conv2d", "Sequential">>, <<"BatchNorm2d", "Linear", "Sequential">>,
     <<"BatchNorm2d", "ReLU", "ConvTranspose2d", "BatchNorm2d", "Sequential">>,
     <<"Identity", "ConvBlock">>, <<"LayerNorm", "InstanceNorm2d", "Sequential">>}

FactoryArgs ==
    [op : {"get_norm_layer"}, norm_type : NormTypes]
    \cup [op : {"init_weights"}, classes : SmallNets, init_type : InitTypes]
    \cup [op : {"define_G"}, input_nc : InChannels, output_nc : OutChannels, ngf : BaseWidths,
          netG : GeneratorNames, norm : NormTypes, use_dropout : BOOLEAN,
          init_type : InitTypes]
    \cup [op : {"define_D"}, input_nc : InChannels, ndf : DWidths, netD : DiscriminatorNames,
          n_layers_D : 0..MaxDLayers, norm : NormTypes, init_type : InitTypes]

FactoryInit == args \in FactoryArgs /\ GenIdle /\ LossIdle

Call_get_norm_layer ==
    /\ args.op = "get_norm_layer" /\ lastcall = NoCall
    /\ LET r == get_norm_layer(args.norm_type)
       IN  /\ lastcall' = [op |-> "get_norm_layer", ok |-> r.ok, norm_layer |-> r.norm_layer]
           /\ err' = r.err
    /\ UNCHANGED <<args, net, input, output, acts, inst, gp>>

Call_init_weights ==
    /\ args.op = "init_weights" /\ lastcall = NoCall
    /\ LET r == init_weights(args.classes, args.init_type)
       IN  /\ lastcall' = [op |-> "init_weights", ok |-> r.ok, initialised |-> r.initialised,
                            raised_at |-> r.raised_at, before_raise |-> r.before_raise,
                            effects |-> Applied_init_func(args.classes, args.init_type)]
           /\ err' = r.err
    /\ UNCHANGED <<args, net, input, output, acts, inst, gp>>

Call_define_G ==
    /\ args.op = "define_G" /\ lastcall = NoCall
    /\ LET r == define_G(args.input_nc, args.output_nc, args.ngf, args.netG, args.norm,
                         args.use_dropout, args.init_type)
       IN  /\ lastcall' = [op |-> "define_G", ok |-> r.ok, initialised |-> r.initialised,
                            raised_at |-> r.raised_at, before_raise |-> r.before_raise]
           /\ net' = r.net
           /\ err' = r.err
    /\ UNCHANGED <<args, input, output, acts, inst, gp>>

Call_define_D ==
    /\ args.op = "define_D" /\ lastcall = NoCall
    /\ LET r == define_D(args.input_nc, args.ndf, args.netD, args.n_layers_D, args.norm,
                         args.init_type)
       IN  /\ lastcall' = [op |-> "define_D", ok |-> r.ok, initialised |-> r.initialised,
                            raised_at |-> r.raised_at, before_raise |-> r.before_raise]
           /\ net' = r.net
           /\ err' = r.err
    /\ UNCHANGED <<args, input, output, acts, inst, gp>>

FactoryNext == Call_get_norm_layer \/ Call_init_weights \/ Call_define_G \/ Call_define_D

SpecFactory == FactoryInit /\ [][FactoryNext]_vars

(***************************************************************************)
(* get_scheduler.  The options are drawn in the initial state; the call    *)
(* leaves the value it returned, which the caller then uses by calling its *)
(* step method once per epoch.                                             *)
(***************************************************************************)
MaxEpochs == 3

LrPolicies == {"linear", "step", "plateau", "cosine", "exponential", ""}

\* lambda_rule(epoch) of the 'linear' policy, as the rational num / den
lambda_rule(opt, epoch) ==
    [num |-> (opt.n_epochs_decay + 1) - Max(0, epoch + opt.epoch_count - opt.n_epochs),
     den |-> opt.n_epochs_decay + 1]

\* a get_scheduler whose final else raises
get_scheduler_raising(opt) ==
    IF opt.lr_policy = "linear"
    THEN [raised |-> FALSE, err |-> "",
          value |-> [t |-> "LambdaLR", last_epoch |-> 0, factor |-> lambda_rule(opt, 0)]]
    ELSE IF opt.lr_policy = "step"
    THEN [raised |-> FALSE, err |-> "",
          value |-> [t |-> "StepLR", last_epoch |-> 0, step_size |-> opt.lr_decay_iters]]
    ELSE IF opt.lr_policy = "plateau"
    THEN [raised |-> FALSE, err |-> "",
          value |-> [t |-> "ReduceLROnPlateau", last_epoch |-> 0, patience |-> 5]]
    ELSE IF opt.lr_policy = "cosine"
    THEN [raised |-> FALSE, err |-> "",
          value |-> [t |-> "CosineAnnealingLR", last_epoch |-> 0, T_max |-> opt.n_epochs]]
    ELSE [raised |-> TRUE,
          err |-> "NotImplementedError: learning rate policy [" \o opt.lr_policy
                  \o "] is not implemented",
          value |-> NoInst]

\* get_scheduler: the value returned.  The final else returns the exception
\* object NotImplementedError(msg, opt.lr_policy); nothing is raised.
get_scheduler(opt) ==
    IF opt.lr_policy = "linear"
    THEN [raised |-> FALSE, err |-> "",
          value |-> [t |-> "LambdaLR", last_epoch |-> 0, factor |-> lambda_rule(opt, 0)]]
    ELSE IF opt.lr_policy = "step"
    THEN [raised |-> FALSE, err |-> "",
          value |-> [t |-> "StepLR", last_epoch |-> 0, step_size |-> opt.lr_decay_iters]]
    ELSE IF opt.lr_policy = "plateau"
    THEN [raised |-> FALSE, err |-> "",
          value |-> [t |-> "ReduceLROnPlateau", last_epoch |-> 0, patience |-> 5]]
    ELSE IF opt.lr_policy = "cosine"
    THEN [raised |-> FALSE, err |-> "",
          value |-> [t |-> "CosineAnnealingLR", last_epoch |-> 0, T_max |-> opt.n_epochs]]
    ELSE [raised |-> FALSE, err |-> "",
          value |-> [t |-> "NotImplementedError", last_epoch |-> 0,
                     args |-> <<"learning rate policy [%s] is not implemented",
                                opt.lr_policy>>]]

Schedulers == {"LambdaLR", "StepLR", "ReduceLROnPlateau", "CosineAnnealingLR"}

SchedulerArgs ==
    [op : {"get_scheduler"}, lr_policy : LrPolicies, epoch_count : 0..1,
     n_epochs : 1..MaxEpochs, n_epochs_decay : 0..MaxEpochs, lr_decay_iters : 1..2]

SchedulerInit == args \in SchedulerArgs /\ GenIdle /\ LossIdle

Call_get_scheduler ==
    /\ args.op = "get_scheduler" /\ lastcall = NoCall
    /\ LET r == get_scheduler(args)
       IN  /\ lastcall' = [op |-> "get_scheduler", raised |-> r.raised]
           /\ inst' = r.value
           /\ err' = r.err
    /\ UNCHANGED <<args, net, input, output, acts, gp>>

\* the caller's scheduler.step() at the end of an epoch
Scheduler_step ==
    /\ lastcall.op = "get_scheduler" /\ err = ""
    /\ inst.t \in Schedulers
    /\ inst.last_epoch < MaxEpochs
    /\ inst' = IF inst.t = "LambdaLR"
               THEN [inst EXCEPT !.last_epoch = @ + 1,
                                 !.factor = lambda_rule(args, inst.last_epoch + 1)]
               ELSE [inst EXCEPT !.last_epoch = @ + 1]
    /\ UNCHANGED <<args, net, input, output, acts, lastcall, err, gp>>

\* the same call on a value that is not a scheduler
NotAScheduler_step ==
    /\ lastcall.op = "get_scheduler" /\ err = ""
    /\ inst.t \notin Schedulers /\ inst # NoInst
    /\ err' = "AttributeError: '" \o inst.t \o "' object has no attribute 'step'"
    /\ UNCHANGED <<args, net, input, output, acts, inst, lastcall, gp>>

SchedulerNext == Call_get_scheduler \/ Scheduler_step \/ NotAScheduler_step

SpecScheduler == SchedulerInit /\ [][SchedulerNext]_vars

(***************************************************************************)
(* Claims about the generators                                             *)
(***************************************************************************)
Called == input.ok

SameSize == output = Tensor(input.b, net.output_nc, input.h, input.w)

\* C1 as stated: for every input with H, W >= 4 that forward accepts (it
\* returns a tensor), whatever the block count, ResnetGenerator.forward
\* returns (B, output_nc, H, W), not only for multiples of 4.
C1_Original ==
    (/\ net.t = "ResnetGenerator" /\ Called /\ input.h >= 4 /\ input.w >= 4
     /\ output.ok) => SameSize

\* C1 amended: when H and W are multiples of 4 and at least 8,
\* ResnetGenerator.forward returns (B, output_nc, H, W), for every block
\* count, normalization, padding type and base width.
C1_ResnetKeepsMultiplesOf4 ==
    (/\ net.t = "ResnetGenerator" /\ Called
     /\ input.h % 4 = 0 /\ input.w % 4 = 0 /\ input.h >= 8 /\ input.w >= 8) => SameSize

C1_Witness ==
    /\ net.t = "ResnetGenerator" /\ Called
    /\ net.n_blocks = 1 /\ args.ngf = 4 /\ net.output_nc = 3
    /\ input = Tensor(2, 3, 8, 12)
    /\ output = Tensor(2, 3, 8, 12)

NextNet == net.t \in {"ConvnextGenerator", "InvnextGenerator"}

\* the decoder tensor and the encoder tensor of each torch.cat agree in size
SkipsAgree ==
    /\ acts.de4.ok /\ acts.enx3.ok /\ acts.de4.h = acts.enx3.h /\ acts.de4.w = acts.enx3.w
    /\ acts.de3.ok /\ acts.enx2.ok /\ acts.de3.h = acts.enx2.h /\ acts.de3.w = acts.enx2.w
    /\ acts.de2.ok /\ acts.enx1.ok /\ acts.de2.h = acts.enx1.h /\ acts.de2.w = acts.enx1.w

\* the encoder divides the side by 4, 2, 2, 2 and the decoder multiplies it
\* back by 2, 2, 2, 4
ReductionsUndone ==
    /\ acts.en1.h * 4 = input.h /\ acts.en1.w * 4 = input.w
    /\ acts.en2.h * 2 = acts.en1.h /\ acts.en2.w * 2 = acts.en1.w
    /\ acts.en3.h * 2 = acts.en2.h /\ acts.en3.w * 2 = acts.en2.w
    /\ acts.en4.h * 2 = acts.en3.h /\ acts.en4.w * 2 = acts.en3.w
    /\ acts.de4.h = 2 * acts.en4.h /\ acts.de4.w = 2 * acts.en4.w
    /\ acts.de3.h = 2 * acts.dex4.h /\ acts.de3.w = 2 * acts.dex4.w
    /\ acts.de2.h = 2 * acts.dex3.h /\ acts.de2.w = 2 * acts.dex3.w
    /\ acts.de1.h = 4 * acts.dex2.h /\ acts.de1.w = 4 * acts.dex2.w

UnetCalled == net.t = "UnetGenerator" /\ Called

SquareOfSide(n) == input.h = n /\ input.w = n

BottleneckIs1x1 ==
    /\ acts.bottleneck.ok /\ acts.bottleneck.h = 1 /\ acts.bottleneck.w = 1

\* C3 as stated: an input of side 2^(d-1) reaches 1x1 at the innermost level
\* and comes back as (B, output_nc, 2^(d-1), 2^(d-1)) (read here for the
\* depths d >= 5 that the constructor honours).
C3_Original ==
    (UnetCalled /\ net.num_downs >= 5 /\ SquareOfSide(2^(net.num_downs - 1)))
        => (BottleneckIs1x1 /\ SameSize)

\* C3 amended: it is an input of side 2^L, L = max(d, 5) the number of
\* levels built, that reaches exactly 1x1 at the innermost level and comes
\* back as (B, output_nc, 2^L, 2^L), for every d.
C3_UnetCollapsesPowerOfLevels ==
    (UnetCalled /\ SquareOfSide(2^Max(net.num_downs, 5))) => (BottleneckIs1x1 /\ SameSize)

C3_Witness ==
    /\ UnetCalled /\ net.num_downs = 7 /\ SquareOfSide(128)
    /\ BottleneckIs1x1
    /\ output = Tensor(input.b, net.output_nc, 128, 128)

LossCalled == lastcall.op = "__call__"

\* two successive calls of the object
TwoCalls == lastcall.op = "__call__" /\ lastcall'.op = "__call__"

WganCallIsMean ==
    (LossCalled /\ inst.gan_mode = "wgangp") =>
        /\ inst.loss = "None"
        /\ lastcall.target = <<>>
        /\ lastcall.loss.den = Len(lastcall.prediction.vals)
        /\ lastcall.loss.num = IF lastcall.target_is_real
                               THEN 0 - SumSeq(lastcall.prediction.vals)
                               ELSE SumSeq(lastcall.prediction.vals)

WganCallsCancel ==
    (/\ TwoCalls /\ inst.gan_mode = "wgangp"
     /\ lastcall'.prediction = lastcall.prediction
     /\ lastcall'.target_is_real # lastcall.target_is_real)
        => lastcall.loss.num * lastcall'.loss.den + lastcall'.loss.num * lastcall.loss.den = 0

\* C5: in mode wgangp every call returns exactly -mean(prediction) when real
\* and mean(prediction) when fake, builds no target tensor and has no loss
\* object, and the results of a real and a fake call on the same prediction
\* sum to zero.
C5_WganIsSignedMean == []WganCallIsMean /\ [][WganCallsCancel]_vars

C5_Witness ==
    /\ LossCalled /\ inst.gan_mode = "wgangp" /\ lastcall.target_is_real
    /\ lastcall.prediction = Prediction(2, 1, 1, 1)
    /\ lastcall.loss = Value("mean", 0 - 2, 2)

\* C6 as stated: the real label lies in [0.7, 1.2) and the fake label in
\* [0.0, 0.3), so the real label exceeds the fake label by more than 0.4.
C6_Original ==
    inst.t = "GANLoss" =>
        /\ inst.real_label >= 7 /\ inst.real_label < 12
        /\ inst.fake_label >= 0 /\ inst.fake_label < 3
        /\ inst.real_label - inst.fake_label > 4

\* C6 amended: the real label is one of 0.7, 0.8, ..., 1.2 and the fake label
\* one of 0.0, 0.1, 0.2, 0.3, both ends included, so the real label exceeds
\* the fake label by at least 0.4.
C6_LabelsInClosedRanges ==
    inst.t = "GANLoss" =>
        /\ inst.real_label \in 7..12
        /\ inst.fake_label \in 0..3
        /\ inst.real_label - inst.fake_label >= 4

C6_Witness == inst.t = "GANLoss" /\ inst.real_label = 12 /\ inst.fake_label = 3

LabelsKept ==
    inst.t = "GANLoss" =>
        /\ inst'.t = "GANLoss"
        /\ inst'.real_label = inst.real_label
        /\ inst'.fake_label = inst.fake_label

TargetIsLabel ==
    (LossCalled /\ inst.gan_mode \in {"lsgan", "vanilla"}) =>
        lastcall.target = IF lastcall.target_is_real THEN <<inst.real_label>>
                          ELSE <<inst.fake_label>>

SameFlagSameTarget ==
    (/\ TwoCalls /\ inst.gan_mode \in {"lsgan", "vanilla"}
     /\ lastcall'.target_is_real = lastcall.target_is_real)
        => lastcall'.target = lastcall.target

\* C7: once constructed, the real_label and fake_label buffers never change,
\* whatever calls follow; a lsgan or vanilla call takes its target from them,
\* and two calls with the same flag use the same target value.
C7_LabelsFixedAtConstruction ==
    [][LabelsKept]_vars /\ []TargetIsLabel /\ [][SameFlagSameTarget]_vars

C7_Witness ==
    /\ LossCalled /\ inst.gan_mode = "lsgan" /\ lastcall.target_is_real
    /\ inst.real_label = 9 /\ lastcall.target = <<9>>

ValidModes == {"lsgan", "vanilla", "binary", "wgangp"}

\* C8: construction succeeds exactly for lsgan, vanilla, binary and wgangp and
\* raises the error naming the mode otherwise, so every instance has one of
\* the four modes; every call takes one of the three branches and leaves the
\* loss assigned (a failure can only come from the loss object rejecting the
\* shape of a 'binary' prediction).
C8_ModeCheckedAtConstruction ==
    /\ lastcall.op = "__init__" =>
         IF lastcall.gan_mode \in ValidModes
         THEN inst.t = "GANLoss" /\ inst.gan_mode = lastcall.gan_mode /\ err = ""
         ELSE /\ inst = NoInst
              /\ err = "NotImplementedError: gan mode " \o lastcall.gan_mode \o " not implemented"
    /\ inst.t = "GANLoss" => inst.gan_mode \in ValidModes
    /\ LossCalled =>
         /\ lastcall.branch \in {"lsgan, vanilla", "binary", "wgangp"}
         /\ \/ lastcall.loss.fn \in {"MSELoss", "BCEWithLogitsLoss", "CrossEntropyLoss", "mean"}
            \/ /\ inst.gan_mode = "binary"
               /\ \/ lastcall.prediction.rows # 4
                  \/ lastcall.target_is_real /\ lastcall.prediction.cols < 2

C8_Witness ==
    /\ lastcall.op = "__init__" /\ lastcall.gan_mode = "hinge"
    /\ inst = NoInst
    /\ err = "NotImplementedError: gan mode hinge not implemented"

(***************************************************************************)
(* Claims about cal_gradient_penalty                                       *)
(***************************************************************************)
GpCalled == gp.op = "cal_gradient_penalty"

ZeroReturned ==
    (GpCalled /\ gp.lambda_gp <= 0) =>
        /\ gp.ret = Returned(<<"0.0", "None">>)
        /\ ~gp.evaluated
        /\ gp.marked = {}

NothingTouched ==
    (gp'.op = "cal_gradient_penalty" /\ gp'.lambda_gp <= 0) =>
        /\ gp'.netD_calls = gp.netD_calls
        /\ gp'.requires_grad = gp.requires_grad

\* C9: a call with lambda_gp <= 0 returns exactly (0.0, None) whatever the
\* discriminator, the interpolation type and the constant are; it does not
\* evaluate the discriminator and marks no tensor as requiring gradients.
C9_NonPositiveWeightReturnsZero == []ZeroReturned /\ [][NothingTouched]_vars

C9_Witness ==
    /\ GpCalled /\ gp.lambda_gp = 0 /\ gp.type = "interp" /\ gp.netD = "raises"
    /\ gp.ret = Returned(<<"0.0", "None">>)
    /\ gp.netD_calls = 1

UnknownType == GpCalled /\ gp.type \notin {"real", "fake", "mixed"}

FailsUnimplemented ==
    /\ gp.ret = Raised("NotImplementedError: " \o gp.type \o " not implemented")
    /\ ~gp.evaluated
    /\ gp.marked = {}

\* C10 as stated: every type name outside real, fake, mixed makes the call
\* fail with the unimplemented error, for every lambda_gp, before the
\* discriminator is evaluated.
C10_Original == UnknownType => FailsUnimplemented

\* C10 amended: for lambda_gp > 0 every type name outside real, fake, mixed
\* makes the call fail with the unimplemented error, before any tensor is
\* marked and before the discriminator is evaluated; for lambda_gp <= 0 the
\* type is never inspected and the call returns (0.0, None).
C10_UnknownTypeFailsWhenPenalised ==
    /\ (UnknownType /\ gp.lambda_gp > 0) => FailsUnimplemented
    /\ (UnknownType /\ gp.lambda_gp <= 0) => gp.ret = Returned(<<"0.0", "None">>)

C10_Witness ==
    /\ GpCalled /\ gp.type = "interp" /\ gp.lambda_gp = 1 /\ gp.netD = "returns"
    /\ gp.ret = Raised("NotImplementedError: interp not implemented")
    /\ gp.netD_calls = 0

(***************************************************************************)
(* Claims about get_norm_layer, define_G, define_D and init_weights        *)
(***************************************************************************)
NormCalled == lastcall.op = "get_norm_layer"

\* C11 as stated: for batch, instance, layer and none get_norm_layer returns
\* a callable that yields a normalization operator for a channel count (the
\* identity for none); for every other name it raises the error naming it.
C11_Original ==
    NormCalled =>
        IF args.norm_type \in {"batch", "instance", "layer", "none"}
        THEN /\ lastcall.ok
             /\ err = ""
             /\ Norm(lastcall.norm_layer, 8, "").t
                    \in {"BatchNorm2d", "InstanceNorm2d", "LayerNorm", "Identity"}
             /\ args.norm_type = "none" => lastcall.norm_layer = "Identity"
        ELSE /\ ~lastcall.ok
             /\ err = "NotImplementedError: normalization layer [" \o args.norm_type
                      \o "] is not found"

\* what get_norm_layer does for the three other names and for unknown names
C11_OtherNames ==
    (NormCalled /\ args.norm_type # "layer") => C11_Original

GCalled == lastcall.op = "define_G"

\* the normalization name is one get_norm_layer returns for, and the init
\* type one init_weights knows
ValidNormAndInit ==
    /\ args.norm \in {"batch", "instance", "none"}
    /\ args.init_type \in {"normal", "xavier", "kaiming", "orthogonal"}

UnrecognizedGenerator ==
    /\ ~lastcall.ok
    /\ net = NoNet
    /\ err = "NotImplementedError: Generator model name [" \o args.netG \o "] is not recognized"

GeneratorBuilt ==
    /\ lastcall.ok
    /\ err = ""
    /\ net.t \in {"ResnetGenerator", "ConvnextGenerator", "InvnextGenerator",
                  "ConvnextBIGenerator", "UnetGenerator"}

\* C12 as stated: define_G builds a generator for resnet_9blocks,
\* resnet_6blocks, resnet_1blocks, convnext, invnext, convnext_interpolation,
\* unet_128 and unet_256, spelled so, and raises the unrecognized-generator
\* error for every other name.
C12_Original ==
    (GCalled /\ ValidNormAndInit) =>
        IF args.netG \in {"resnet_9blocks", "resnet_6blocks", "resnet_1blocks", "convnext",
                          "invnext", "convnext_interpolation", "unet_128", "unet_256"}
        THEN GeneratorBuilt
        ELSE UnrecognizedGenerator

\* C12 amended: the eight names are resnet_9blocks, resnet_6blocks,
\* resnet_1blocks, convnext, invnext, Convnext_Interpolation (capitalised),
\* unet_128 and unet_256; each builds its generator class, and every other
\* name, the lower-case convnext_interpolation included, raises the
\* unrecognized-generator error.  With norm 'layer' define_G raises the
\* TypeError of get_norm_layer before looking at the kind.
C12_GeneratorNamesAsSpelledInCode ==
    /\ (GCalled /\ ValidNormAndInit) =>
        CASE args.netG = "resnet_9blocks" ->
                GeneratorBuilt /\ net.t = "ResnetGenerator" /\ net.n_blocks = 9
          [] args.netG = "resnet_6blocks" ->
                GeneratorBuilt /\ net.t = "ResnetGenerator" /\ net.n_blocks = 6
          [] args.netG = "resnet_1blocks" ->
                GeneratorBuilt /\ net.t = "ResnetGenerator" /\ net.n_blocks = 1
          [] args.netG = "convnext" -> GeneratorBuilt /\ net.t = "ConvnextGenerator"
          [] args.netG = "invnext" -> GeneratorBuilt /\ net.t = "InvnextGenerator"
          [] args.netG = "Convnext_Interpolation" ->
                GeneratorBuilt /\ net.t = "ConvnextBIGenerator"
          [] args.netG = "unet_128" ->
                GeneratorBuilt /\ net.t = "UnetGenerator" /\ net.num_downs = 7
          [] args.netG = "unet_256" ->
                GeneratorBuilt /\ net.t = "UnetGenerator" /\ net.num_downs = 8
          [] OTHER -> UnrecognizedGenerator
    /\ (GCalled /\ args.norm = "layer") =>
        /\ ~lastcall.ok /\ net = NoNet
        /\ err = "TypeError: __init__() missing 1 required positional argument: 'normalized_shape'"

C12_Witness ==
    /\ GCalled /\ args.netG = "Convnext_Interpolation" /\ args.norm = "batch"
    /\ args.init_type = "kaiming"
    /\ lastcall.ok /\ net.t = "ConvnextBIGenerator"

DCalled == lastcall.op = "define_D"

\* the stride-2 convolutions of a PatchGAN
StridedConvs(d) == {i \in 1..Len(d.model) : d.model[i].t = "Conv2d" /\ d.model[i].s = 2}

PatchGANBuilt(n) ==
    /\ lastcall.ok /\ err = ""
    /\ net.t = "NLayerDiscriminator"
    /\ net.n_layers = n
    /\ n >= 1 => Cardinality(StridedConvs(net)) = n

\* C13: given a normalization name get_norm_layer returns for and a known
\* init type, define_D builds a discriminator exactly for basic, n_layers,
\* pixel and binary and raises the unrecognized-discriminator error for every
\* other name; basic builds the PatchGAN with 3 layers whatever n_layers_D
\* is, n_layers builds it with n_layers_D layers.
C13_DiscriminatorKinds ==
    (DCalled /\ ValidNormAndInit) =>
        CASE args.netD = "basic" -> PatchGANBuilt(3)
          [] args.netD = "n_layers" -> PatchGANBuilt(args.n_layers_D)
          [] args.netD = "pixel" -> lastcall.ok /\ err = "" /\ net.t = "PixelDiscriminator"
          [] args.netD = "binary" -> lastcall.ok /\ err = "" /\ net.t = "Discriminator_Classify"
          [] OTHER ->
                /\ ~lastcall.ok /\ net = NoNet
                /\ err = "NotImplementedError: Discriminator model name [" \o args.netD
                         \o "] is not recognized"

C13_Witness ==
    /\ DCalled /\ args.netD = "basic" /\ args.n_layers_D = 1 /\ args.norm = "instance"
    /\ lastcall.ok /\ net.t = "NLayerDiscriminator" /\ net.n_layers = 3
    /\ Cardinality(StridedConvs(net)) = 3

(***************************************************************************)
(* Claims about the discriminators                                         *)
(***************************************************************************)
PatchGANCalled == net.t = "NLayerDiscriminator" /\ Called /\ net.n_layers >= 1

\* floor(S / 2^n) - 2
PatchSide(S, n) == (S \div 2^n) - 2

\* the output of the PatchGAN with m layers on the same input
WithLayers(m) ==
    NLayerDiscriminatorForward(
        NLayerDiscriminator(args.input_nc, args.ndf, m, args.norm_layer), input)

\* C14: NLayerDiscriminator with n >= 1 layers maps an input of side S to a
\* 1-channel map of side floor(S / 2^n) - 2 (and raises when that is not
\* positive); basic (n = 3) on 256x256 gives 30x30; for a fixed input the
\* output side does not grow with the number of stride-2 layers.
C14_PatchGANOutputSide ==
    PatchGANCalled =>
        /\ IF PatchSide(input.h, net.n_layers) >= 1 /\ PatchSide(input.w, net.n_layers) >= 1
           THEN output = Tensor(input.b, 1, PatchSide(input.h, net.n_layers),
                                PatchSide(input.w, net.n_layers))
           ELSE ~output.ok
        /\ (net.n_layers = 3 /\ input.h = 256 /\ input.w = 256)
              => (output.ok /\ output.h = 30 /\ output.w = 30)
        /\ \A m \in 1..net.n_layers :
              (output.ok /\ WithLayers(m).ok)
                  => (WithLayers(m).h >= output.h /\ WithLayers(m).w >= output.w)

C14_Witness ==
    /\ PatchGANCalled /\ net.n_layers = 3 /\ input = Tensor(1, 3, 256, 256)
    /\ output = Tensor(1, 1, 30, 30)
    /\ WithLayers(2).h = 62

ClassifyCalled == net.t = "Discriminator_Classify" /\ Called

\* C15: Discriminator_Classify takes 224x224 through six stride-2 stages
\* (112, 56, 28, 14, 7, 4); on a 224x224 input forward returns a (4, 2)
\* tensor when the batch holds exactly 4 samples and fails for every other
\* batch size.
C15_ClassifyNeedsBatchOf4 ==
    (ClassifyCalled /\ input.h = 224 /\ input.w = 224) =>
        /\ [i \in 1..Len(acts.convs) |-> acts.convs[i].h] = <<112, 56, 28, 14, 7, 4>>
        /\ [i \in 1..Len(acts.convs) |-> acts.convs[i].w] = <<112, 56, 28, 14, 7, 4>>
        /\ acts.convs[6].c = net.ndf * 32
        /\ input.b = 4 => output = Matrix(4, 2)
        /\ input.b # 4 => ~output.ok

C15_Witness ==
    /\ ClassifyCalled /\ input = Tensor(4, 3, 224, 224) /\ net.ndf = 96
    /\ acts.convs[6] = Tensor(4, 96 * 32, 4, 4)
    /\ output = Matrix(4, 2)

(***************************************************************************)
(* Claims about ConvnextBIGenerator                                        *)
(***************************************************************************)
BICalled == net.t = "ConvnextBIGenerator" /\ Called

\* the members forward applied
Applied == {acts.calls[i] : i \in 1..Len(acts.calls)}

LayerTypes(layers) == [i \in 1..Len(layers) |-> layers[i].t]

\* C16 as stated: forward applies decoder0, the resize to 224x224, after
\* decoder1, so that the returned tensor is 224x224 whatever the upsampling
\* chain produced; decoder4 and decoder3 resize (to 14x14 and 28x28) and
\* apply a 1x1 convolution, decoder2 and decoder1 are transposed convolutions.
C16_Original ==
    (BICalled /\ net.ngf = dims[1]) =>
        /\ "decoder0" \in Applied
        /\ output = Tensor(input.b, net.output_nc, 224, 224)
        /\ LayerTypes(net.m.decoder4) = <<"Resize", "Conv2d", "LayerNorm">>
        /\ LayerTypes(net.m.decoder3) = <<"Resize", "Conv2d", "LayerNorm">>
        /\ LayerTypes(net.m.decoder2) = <<"ConvTranspose2d", "LayerNorm">>
        /\ LayerTypes(net.m.decoder1) = <<"ConvTranspose2d", "LayerNorm">>

\* what forward does instead: decoder0 is constructed but never applied, the
\* result is act(decoder1(...)); it is 224x224 exactly for inputs of side
\* 224..227, and every other input size fails at a concatenation
C16_Decoder0NeverApplied ==
    (BICalled /\ net.ngf = dims[1]) =>
        /\ "decoder0" \notin Applied
        /\ LayerTypes(net.m.decoder0) = <<"Resize", "ConvTranspose2d", "LayerNorm">>
        /\ IF input.h \in 224..227 /\ input.w \in 224..227
           THEN output = Tensor(input.b, net.output_nc, 224, 224)
           ELSE ~output.ok

(***************************************************************************)
(* Claims about init_weights                                               *)
(***************************************************************************)
InitCalled == lastcall.op = "init_weights"

UnknownInitType == args.init_type \notin {"normal", "xavier", "kaiming", "orthogonal"}

InitRaised ==
    /\ ~lastcall.ok
    /\ err = "NotImplementedError: initialization method [" \o args.init_type
             \o "] is not implemented"

\* C17 as stated: init_weights raises the unimplemented-method error for
\* every init_type outside normal, xavier, kaiming, orthogonal, whatever
\* modules the network holds, one without convolution or linear layer included.
C17_Original == (InitCalled /\ UnknownInitType) => InitRaised

\* a module that is a convolution, a transposed convolution or a linear layer
HoldsConvOrLinear ==
    \E i \in 1..Len(args.classes) : args.classes[i] \in {"Conv2d", "ConvTranspose2d", "Linear"}

\* C17 amended: init_weights raises the unimplemented-method error exactly
\* when init_type is outside the four names and the network holds at least
\* one convolution, transposed convolution or linear layer; on a network
\* without such a module it returns normally for every init_type.  Every
\* network define_G and define_D build holds a convolution, so they raise.
C17_RaisesOnlyAtConvOrLinear ==
    /\ InitCalled => (InitRaised <=> (UnknownInitType /\ HoldsConvOrLinear))
    /\ (InitCalled /\ ~InitRaised) => (lastcall.ok /\ err = "")
    /\ ((GCalled \/ DCalled) /\ UnknownInitType /\ args.norm \in {"batch", "instance", "none"}
        /\ ~(GCalled /\ args.netG \notin {"resnet_9blocks", "resnet_6blocks", "resnet_1blocks",
                                          "convnext", "invnext", "Convnext_Interpolation",
                                          "unet_128", "unet_256"})
        /\ ~(DCalled /\ args.netD \notin {"basic", "n_layers", "pixel", "binary"}))
           => (InitRaised /\ net = NoNet)

C17_Witness ==
    /\ InitCalled /\ args.init_type = "uniform"
    /\ args.classes = <<"BatchNorm2d", "Sequential">>
    /\ lastcall.ok /\ lastcall.initialised = {1}

(***************************************************************************)
(* Claims about the channels of the U-Net                                  *)
(***************************************************************************)
\* the transposed convolution of a block
Upconv(block) ==
    block.model[CHOOSE i \in 1..Len(block.model) : block.model[i].name = "upconv"]

ChannelsChained(chain) ==
    /\ \A i \in 1..Len(chain) : chain[i].outermost <=> i = 1
    /\ \A i \in 1..(Len(chain) - 1) :
          /\ Upconv(chain[i]).cin = 2 * chain[i].inner_nc
          /\ 2 * chain[i + 1].outer_nc = Upconv(chain[i]).cin
    /\ Upconv(chain[Len(chain)]).cin = chain[Len(chain)].inner_nc

SkipsConcatenated(chain, levels) ==
    \A i \in 1..Len(chain) :
        levels[i].out.ok =>
            IF i = 1
            THEN levels[i].out.c = chain[i].outer_nc
            ELSE /\ levels[i].in.c = chain[i].outer_nc
                 /\ levels[i].out.c = 2 * chain[i].outer_nc
                 /\ levels[i].out.h = levels[i].in.h
                 /\ levels[i].out.w = levels[i].in.w

\* C18: in every UnetGenerator each non-outermost level returns its input
\* concatenated with its upsampled output (2 x outer_nc channels) and the
\* outermost level returns its upsampled output alone; the 2 x outer_nc
\* channels a child delivers are the input channels of its parent's
\* transposed convolution (2 x inner_nc), and the innermost transposed
\* convolution takes inner_nc channels.
C18_SkipChannelsAgree ==
    /\ net.t = "UnetGenerator" => ChannelsChained(BlockChain(net.model))
    /\ UnetCalled => SkipsConcatenated(BlockChain(net.model), acts.levels)
    /\ UnetCalled => acts.levels[1].in = input /\ acts.levels[1].out = output

C18_Witness ==
    /\ UnetCalled /\ net.num_downs = 6 /\ SquareOfSide(64) /\ output.ok
    /\ Len(acts.levels) = 6
    /\ acts.levels[2].out.c = 2 * args.ngf
    /\ acts.levels[6].out.c = 16 * args.ngf
    /\ acts.levels[1].out.c = net.output_nc

(***************************************************************************)
(* Claims about the stages of the ConvNeXt generators                      *)
(***************************************************************************)
LargeEnough == input.h >= 32 /\ input.w >= 32

\* the tensors leaving the four encoders and the four stages of blocks
Encoded == <<acts.en1, acts.en2, acts.en3, acts.en4>>

Staged == <<acts.enx1, acts.enx2, acts.enx3, acts.bottle_x>>

\* C19 as stated: encoder stage i has dims[i-1] channels, doubling over the
\* first three stages, so the blocks of stage i receive exactly the channels
\* they were built for, for every base width ngf.
C19_Original ==
    (NextNet /\ Called /\ LargeEnough) =>
        \A i \in 1..4 :
            /\ Encoded[i].ok /\ Encoded[i].c = dims[i]
            /\ net.blocks[i][1].dim = Encoded[i].c
            /\ Staged[i].ok

\* What the code does about C19: encoder stage i has ngf * 2^(i-1) channels while its blocks
\* are built for 96, 192, 384, 768; the two agree, and the blocks accept
\* their input, only for ngf = 96.  For any other ngf the first stage of
\* blocks rejects the output of encoder1 and forward fails.
C19_WidthsAgreeOnlyForNgf96 ==
    (NextNet /\ Called /\ LargeEnough) =>
        /\ acts.en1.ok /\ acts.en1.c = net.ngf
        /\ \A i \in 1..4 : net.blocks[i][1].dim = <<96, 192, 384, 768>>[i]
        /\ IF net.ngf = 96
           THEN \A i \in 1..4 :
                    /\ Encoded[i].ok /\ Encoded[i].c = net.ngf * 2^(i - 1)
                    /\ Encoded[i].c = net.blocks[i][1].dim
                    /\ Staged[i].ok /\ Staged[i].c = Encoded[i].c
           ELSE ~acts.enx1.ok /\ ~output.ok

C19_Witness ==
    /\ net.t = "ConvnextGenerator" /\ Called /\ net.ngf = 96 /\ input = Tensor(1, 3, 32, 64)
    /\ acts.en3 = Tensor(1, 384, 2, 4)
    /\ acts.bottle_x = Tensor(1, 768, 1, 2)

Multiples32 == input.h % 32 = 0 /\ input.w % 32 = 0

\* C20 as stated: each of decoder4, decoder3, decoder2 and decoder1 has its
\* output concatenated with an encoder stage's output and passed through its
\* fusing convolution upconv4, upconv3, upconv2, upconv1; every upconv of
\* the constructor is used.
C20_Original ==
    (NextNet /\ Called /\ net.ngf = 96 /\ Multiples32) =>
        /\ output.ok
        /\ {"upconv4", "upconv3", "upconv2", "upconv1"} \subseteq Applied
        /\ Cardinality({i \in 1..Len(acts.calls) : acts.calls[i] = "cat"}) = 4

\* a decoder output joined with an encoder stage's output and fused
Fused(de, enx, cat, dex, width) ==
    /\ cat = Tensor(de.b, de.c + enx.c, de.h, de.w)
    /\ enx.h = de.h /\ enx.w = de.w
    /\ dex = Tensor(de.b, width, de.h, de.w)

\* What the code does about C20: three decoder stages (decoder4, decoder3, decoder2) have
\* their output concatenated with the encoder stage of the same resolution
\* and fused by upconv4, upconv3, upconv2; the output of decoder1 is not
\* concatenated with anything and goes straight to the final activation.
\* upconv1 is constructed but never used.
C20_ThreeFusedStages ==
    (NextNet /\ Called /\ net.ngf = 96 /\ Multiples32) =>
        /\ output.ok
        /\ acts.calls = <<"encoder1", "block[0]", "encoder2", "block[1]", "encoder3",
                          "block[2]", "encoder4", "block[3]", "decoder4", "cat", "upconv4",
                          "decoder3", "cat", "upconv3", "decoder2", "cat", "upconv2",
                          "decoder1", "act">>
        /\ Fused(acts.de4, acts.enx3, acts.cat4, acts.dex4, 4 * net.ngf)
        /\ Fused(acts.de3, acts.enx2, acts.cat3, acts.dex3, 2 * net.ngf)
        /\ Fused(acts.de2, acts.enx1, acts.cat2, acts.dex2, net.ngf)
        /\ output = acts.de1
        /\ Len(net.m.upconv1) = 2
        /\ "upconv1" \notin Applied

C20_Witness ==
    /\ net.t = "ConvnextGenerator" /\ Called /\ net.ngf = 96 /\ input = Tensor(2, 3, 64, 64)
    /\ acts.cat4 = Tensor(2, 768, 4, 4)
    /\ acts.dex2 = Tensor(2, 96, 16, 16)
    /\ Len(acts.calls) = 19
    /\ output = Tensor(2, net.output_nc, 64, 64)

(***************************************************************************)
(* Claims about the skip concatenations of the ConvNeXt generators         *)
(***************************************************************************)
FamilyNet == net.t \in FamilyKinds

FamilyCalled == FamilyNet /\ input # NoTensor

\* the convolution of a member: its first layer that has input channels
ConvOf(layers) ==
    layers[CHOOSE i \in 1..Len(layers) :
              /\ layers[i].t \in {"Conv2d", "ConvTranspose2d"}
              /\ \A j \in 1..(i - 1) : layers[j].t \notin {"Conv2d", "ConvTranspose2d"}]

\* the members of the skip at decoder stage k = 4, 3, 2: the decoder, the
\* encoder whose stage is concatenated, the fusing convolution, the next
\* decoder
SkipMembers(k) ==
    CASE k = 4 -> [de |-> net.m.decoder4, en |-> net.m.encoder3, up |-> net.m.upconv4,
                   next |-> net.m.decoder3]
      [] k = 3 -> [de |-> net.m.decoder3, en |-> net.m.encoder2, up |-> net.m.upconv3,
                   next |-> net.m.decoder2]
      [] k = 2 -> [de |-> net.m.decoder2, en |-> net.m.encoder1, up |-> net.m.upconv2,
                   next |-> net.m.decoder1]

\* the tensors of the skip at decoder stage k during forward
SkipTensors(k) ==
    CASE k = 4 -> [de |-> acts.de4, enx |-> acts.enx3, cat |-> acts.cat4, dex |-> acts.dex4]
      [] k = 3 -> [de |-> acts.de3, enx |-> acts.enx2, cat |-> acts.cat3, dex |-> acts.dex3]
      [] k = 2 -> [de |-> acts.de2, enx |-> acts.enx1, cat |-> acts.cat2, dex |-> acts.dex2]

\* C21: at every skip concatenation of the ConvNeXt generators (plain,
\* involution, interpolation) the concatenated channel count is the sum of
\* the decoder-stage and encoder-stage widths (8, 4, 2 times the base width)
\* and is the input channel count of the fusing convolution, whose output
\* width is the input width of the next decoder stage.
C21_SkipWidthsAddUp ==
    /\ FamilyNet =>
          \A k \in {4, 3, 2} :
              LET m == SkipMembers(k)
              IN  /\ ConvOf(m.up).cin = ConvOf(m.de).cout + ConvOf(m.en).cout
                  /\ ConvOf(m.up).cin = 2^(k - 1) * net.ngf
                  /\ ConvOf(m.up).cout = ConvOf(m.next).cin
    /\ FamilyCalled =>
          \A k \in {4, 3, 2} :
              LET m == SkipMembers(k)
                  a == SkipTensors(k)
              IN  /\ (a.de.ok /\ a.enx.ok /\ a.de.h = a.enx.h /\ a.de.w = a.enx.w) =>
                          /\ a.cat.ok
                          /\ a.cat.c = a.de.c + a.enx.c
                          /\ a.cat.c = 2^(k - 1) * net.ngf
                          /\ a.cat.c = ConvOf(m.up).cin
                          /\ a.dex.ok
                          /\ a.dex.c = ConvOf(m.next).cin
                  /\ a.cat.ok => a.de.ok /\ a.enx.ok

C21_Witness ==
    /\ net.t = "ConvnextBIGenerator" /\ FamilyCalled /\ input = Tensor(1, 3, 224, 224)
    /\ acts.de4 = Tensor(1, 384, 14, 14) /\ acts.enx3 = Tensor(1, 384, 14, 14)
    /\ acts.cat4 = Tensor(1, 768, 14, 14) /\ acts.dex4 = Tensor(1, 384, 14, 14)
    /\ acts.cat3.c = 384 /\ acts.cat2.c = 192 /\ acts.dex2.c = 96
    /\ output.ok

(***************************************************************************)
(* Claims about what init_weights mutates                                  *)
(***************************************************************************)
\* the modules init_weights has visited and what it left on each: those of
\* the list given to init_weights, or of the network define_G or define_D
\* built and initialised
Visited ==
    IF lastcall.op = "init_weights" THEN args.classes
    ELSE IF lastcall.op \in {"define_G", "define_D"} /\ lastcall.ok THEN NetClasses(net)
    ELSE <<>>

Effects ==
    IF lastcall.op = "init_weights" THEN lastcall.effects
    ELSE Applied_init_func(Visited, args.init_type)

InitSucceeded ==
    \/ lastcall.op = "init_weights" /\ lastcall.ok
    \/ lastcall.op \in {"define_G", "define_D"} /\ lastcall.ok

ConvOrLinearLayers == {"Conv2d", "ConvTranspose2d", "Linear"}

\* C22: init_weights mutates exactly the convolution and linear modules
\* (weight overwritten by the chosen method, bias zeroed if present) and the
\* BatchNorm2d modules (weight drawn around 1, bias zeroed); every other
\* module (LayerNorm, InstanceNorm2d, ConvNeXt blocks and their gamma,
\* containers such as ConvBlock or ConvnextGenerator) keeps its parameters.
C22_MutatesConvLinearBatchNormOnly ==
    InitSucceeded =>
        /\ Len(Effects) = Len(Visited)
        /\ \A i \in 1..Len(Visited) :
              IF Visited[i] \in ConvOrLinearLayers
              THEN Effects[i] = [raised |-> FALSE, weight |-> args.init_type,
                                 bias |-> "zero if present"]
              ELSE IF Visited[i] = "BatchNorm2d"
              THEN Effects[i] = [raised |-> FALSE, weight |-> "normal around 1",
                                 bias |-> "zero"]
              ELSE Effects[i] = Untouched
        /\ lastcall.op = "init_weights" =>
              lastcall.initialised = {i \in 1..Len(Visited) : Effects[i] # Untouched}

C22_Witness ==
    /\ lastcall.op = "define_G" /\ lastcall.ok /\ net.t = "ConvnextGenerator"
    /\ args.init_type = "kaiming"
    /\ \E i, j, k \in 1..Len(Visited) :
          /\ Visited[i] = "LayerNorm" /\ Effects[i] = Untouched
          /\ Visited[j] = "Block" /\ Effects[j] = Untouched
          /\ Visited[k] = "Linear" /\ Effects[k].weight = "kaiming"
    /\ Visited[Len(Visited)] = "ConvnextGenerator" /\ Effects[Len(Visited)] = Untouched

(***************************************************************************)
(* Claims about ResnetBlock                                                *)
(***************************************************************************)
BlockBuilt == net.t = "ResnetBlock"

BlockCalled == BlockBuilt /\ input # NoTensor

\* the explicit pad layer the claim names for a padding policy
PadOf(padding_type) ==
    CASE padding_type = "reflect" -> <<"ReflectionPad2d">>
      [] padding_type = "replicate" -> <<"ReplicationPad2d">>
      [] padding_type = "zero" -> <<>>

\* the layer sequence the claim names: pad, conv, norm, ReLU, optional
\* dropout, pad, conv, norm
BranchOf(padding_type, norm_layer, use_dropout) ==
    PadOf(padding_type) \o <<"Conv2d", norm_layer, "ReLU">>
    \o (IF use_dropout THEN <<"Dropout">> ELSE <<>>)
    \o PadOf(padding_type) \o <<"Conv2d", norm_layer>>

\* C23: for reflect, replicate and zero the branch of a ResnetBlock is pad,
\* conv 3x3, norm, ReLU, optional dropout, pad, conv 3x3, norm (no pad layer
\* and padding 1 in both convolutions for zero); the branch output has the
\* shape of the block input and forward returns input plus branch; any other
\* padding name raises the unimplemented-padding error at construction.
C23_ResnetBlockBranch ==
    /\ BlockBuilt =>
          /\ args.padding_type \in {"reflect", "replicate", "zero"}
          /\ LayerTypes(net.conv_block)
                = BranchOf(args.padding_type, args.norm_layer, args.use_dropout)
          /\ \A i \in 1..Len(net.conv_block) :
                net.conv_block[i].t = "Conv2d" =>
                    /\ net.conv_block[i].k = 3 /\ net.conv_block[i].s = 1
                    /\ net.conv_block[i].cin = args.dim /\ net.conv_block[i].cout = args.dim
                    /\ net.conv_block[i].p = (IF args.padding_type = "zero" THEN 1 ELSE 0)
          /\ err = ""
    /\ (args \in BlockArgs /\ args.padding_type \notin {"reflect", "replicate", "zero"}) =>
          /\ net = NoNet /\ input = NoTensor
          /\ err \in {"", "NotImplementedError: padding is not implemented"}
    /\ BlockCalled =>
          /\ output = Add(input, acts.branch)
          /\ acts.branch.ok => acts.branch = input /\ output = input

C23_Witness ==
    /\ BlockCalled /\ args.padding_type = "zero" /\ args.use_dropout
    /\ Len(net.conv_block) = 6
    /\ input = Tensor(2, 16, 5, 3) /\ acts.branch = input /\ output = input

\* the construction with a padding name outside the three has raised
C23_WitnessRaised ==
    /\ args.padding_type = "circular" /\ net = NoNet
    /\ err = "NotImplementedError: padding is not implemented"

(***************************************************************************)
(* Claims about the normalization argument of define_G                     *)
(***************************************************************************)
GBuilt == lastcall.op = "define_G" /\ lastcall.ok

ValidNorms == {"batch", "instance", "none"}

\* the generator the same call builds with another normalization name
Rebuilt(norm) ==
    define_G(args.input_nc, args.output_nc, args.ngf, args.netG, norm, args.use_dropout,
             args.init_type).net

\* the classes found in the normalization positions of a ResNet or U-Net
\* generator
NormPositions(self) ==
    {NetClasses(self)[i] : i \in 1..Len(NetClasses(self))}
        \cap {"BatchNorm2d", "InstanceNorm2d", "Identity", "LayerNorm"}

NormBlind == {"resnet_9blocks", "resnet_6blocks", "convnext", "invnext", "Convnext_Interpolation"}

NormFollowing == {"resnet_1blocks", "unet_128", "unet_256"}

\* the class a valid normalization name selects
SelectedNorm(norm) ==
    CASE norm = "batch" -> "BatchNorm2d"
      [] norm = "instance" -> "InstanceNorm2d"
      [] norm = "none" -> "Identity"

C24_WitnessFollowing ==
    /\ GBuilt /\ args.netG = "unet_128" /\ args.norm = "instance"
    /\ NormPositions(net) = {"InstanceNorm2d"}
    /\ Rebuilt("batch") # net

(***************************************************************************)
(* Claims about shallow U-Nets                                             *)
(***************************************************************************)
\* the (outer_nc, inner_nc) of the five levels every UnetGenerator has,
\* outermost first: outermost, three width-reducing levels, innermost
FiveLevels(output_nc, ngf) ==
    <<<<output_nc, ngf>>, <<ngf, ngf * 2>>, <<ngf * 2, ngf * 4>>, <<ngf * 4, ngf * 8>>,
      <<ngf * 8, ngf * 8>>>>

Widths(chain) == [i \in 1..Len(chain) |-> <<chain[i].outer_nc, chain[i].inner_nc>>]

InitFailed ==
    /\ lastcall.op \in {"init_weights", "define_G", "define_D"}
    /\ ~lastcall.ok /\ lastcall.raised_at > 0

\* the failed call was on a network of one of the classes C26 lists
OnListedNetwork ==
    \/ lastcall.op = "define_G"
       /\ args.netG \in {"resnet_9blocks", "resnet_6blocks", "resnet_1blocks", "unet_128",
                         "unet_256", "convnext", "Convnext_Interpolation"}
    \/ lastcall.op = "define_D"

OnResnetGenerator ==
    lastcall.op = "define_G"
    /\ args.netG \in {"resnet_9blocks", "resnet_6blocks", "resnet_1blocks"}

\* C26 as stated: with an unrecognized init_type on any of the listed
\* networks the error is raised at the first visited module, before any
\* parameter has been overwritten.
C26_Original ==
    (InitFailed /\ OnListedNetwork) =>
        /\ lastcall.raised_at = 1
        /\ lastcall.initialised = {}

\* C26 amended: with an unrecognized init_type on any of the listed
\* networks the error is raised at the first visited convolution or linear
\* module, before any parameter has been overwritten.  That module is the
\* first one visited, except in a ResnetGenerator, where it is the second:
\* the parameter-free ReflectionPad2d is visited first.  In general the
\* BatchNorm2d modules visited before the raising module have been
\* initialised when the call fails; the listed networks have none.
C26_RaisesBeforeAnyOverwrite ==
    /\ (InitFailed /\ OnListedNetwork) =>
          /\ lastcall.initialised = {}
          /\ net = NoNet
          /\ IF OnResnetGenerator
             THEN lastcall.raised_at = 2 /\ lastcall.before_raise = <<"ReflectionPad2d">>
             ELSE lastcall.raised_at = 1 /\ lastcall.before_raise = <<>>
    /\ InitFailed =>
          /\ Len(lastcall.before_raise) = lastcall.raised_at - 1
          /\ \A i \in 1..Len(lastcall.before_raise) :
                lastcall.before_raise[i] \notin {"Conv2d", "ConvTranspose2d", "Linear"}
          /\ lastcall.initialised
                = {i \in 1..Len(lastcall.before_raise) : lastcall.before_raise[i] = "BatchNorm2d"}

C26_Witness ==
    /\ InitFailed /\ lastcall.op = "define_G" /\ args.netG = "resnet_9blocks"
    /\ args.init_type = "uniform"
    /\ lastcall.raised_at = 2 /\ lastcall.initialised = {}

\* a failed call on a module list that starts with a BatchNorm2d
C26_WitnessOverwritten ==
    /\ InitFailed /\ lastcall.op = "init_weights"
    /\ args.classes = <<"BatchNorm2d", "Linear", "Sequential">>
    /\ lastcall.initialised = {1} /\ lastcall.raised_at = 2

(***************************************************************************)
(* Claims about the labels and the loss                                    *)
(***************************************************************************)
\* the instance another GANLoss(gan_mode) call would have left, with the
\* labels r and f drawn
Relabelled(r, f) == [inst EXCEPT !.real_label = r, !.fake_label = f]

\* the value the other instance returns for the same prediction and flag
LossWith(r, f) ==
    GANLoss_call(Relabelled(r, f), lastcall.prediction, lastcall.target_is_real).loss

GanCalled == inst.t = "GANLoss" /\ lastcall.op = "__call__"

\* C27: in mode wgangp the loss does not depend on the drawn labels (every
\* other pair of labels gives the same value for the same prediction and
\* flag); in modes lsgan and vanilla instances with different labels can
\* return different values.
C27_WganIgnoresLabels ==
    GanCalled =>
        /\ inst.gan_mode = "wgangp" =>
              \A r \in RealDraws, f \in FakeDraws : LossWith(r, f) = lastcall.loss
        /\ inst.gan_mode = "lsgan" =>
              \E r \in RealDraws, f \in FakeDraws : LossWith(r, f) # lastcall.loss
        /\ (inst.gan_mode = "vanilla" /\ SumSeq(lastcall.prediction.vals) # 0) =>
              \A r \in RealDraws \ {inst.real_label}, f \in FakeDraws \ {inst.fake_label} :
                  LossWith(r, f) # lastcall.loss

C27_Witness ==
    /\ GanCalled /\ inst.gan_mode = "wgangp" /\ ~lastcall.target_is_real
    /\ inst.real_label = 12 /\ inst.fake_label = 0
    /\ lastcall.prediction = Prediction(2, 2, 1, 0)
    /\ lastcall.loss = Value("mean", 2, 4)
    /\ LossWith(7, 3) = lastcall.loss

\* two lsgan instances that disagree on the same prediction and flag
C27_WitnessLsgan ==
    /\ GanCalled /\ inst.gan_mode = "lsgan" /\ lastcall.target_is_real
    /\ inst.real_label = 7 /\ lastcall.prediction = Prediction(1, 1, 1, 1)
    /\ lastcall.loss = Value("MSELoss", 9, 100)
    /\ LossWith(12, 0) = Value("MSELoss", 4, 100)

(***************************************************************************)
(* Claims about get_scheduler                                              *)
(***************************************************************************)
SchedulerCalled == lastcall.op = "get_scheduler"

KnownPolicy == args.lr_policy \in {"linear", "step", "plateau", "cosine"}

NoStep == "AttributeError: 'NotImplementedError' object has no attribute 'step'"

\* what get_scheduler has left: a scheduler for the four policies, the
\* exception object otherwise, and nothing raised by the call itself
ReturnedNotRaised ==
    SchedulerCalled =>
        /\ ~lastcall.raised
        /\ IF KnownPolicy
           THEN inst.t \in Schedulers /\ err = ""
           ELSE /\ inst.t = "NotImplementedError"
                /\ inst.args = <<"learning rate policy [%s] is not implemented",
                                 args.lr_policy>>
                /\ err \in {"", NoStep}

\* the call itself leaves no error
CallLeavesNoError == ~SchedulerCalled => err' = ""

\* the first use of the returned exception object is what fails
UseFails == (SchedulerCalled /\ ~KnownPolicy /\ err = "") => err' = NoStep

\* C28: get_scheduler with an lr_policy outside linear, step, plateau,
\* cosine does not raise: it returns a NotImplementedError object, so the
\* caller holds a value that is not a scheduler and the failure surfaces only
\* when that value is used.
C28_SchedulerReturnsTheError ==
    []ReturnedNotRaised /\ [][CallLeavesNoError]_vars /\ [][UseFails]_vars

C28_Witness ==
    /\ SchedulerCalled /\ args.lr_policy = "exponential"
    /\ ~lastcall.raised /\ inst.t = "NotImplementedError"
    /\ err = NoStep

====
